---- MODULE Spec2Model ----
(***************************************************************************)
(* Guided logging flows of the YAHA Telegram bot: the per-chat state store *)
(* (app/telegram/state.py), the three flow definitions (food, sleep,       *)
(* exercise under app/telegram/flows/), the callback router                *)
(* (app/telegram/callbacks.py) and the webhook endpoint                    *)
(* (app/api/webhook.py).                                                   *)
(*                                                                         *)
(* Python strings that the code inspects (callback data, message text) are *)
(* sequences of one-character strings, so that startswith, removeprefix,   *)
(* strip, lower, replace, split, int() and float() are computed as the     *)
(* code computes them.  Step names, flow names, dictionary keys and the    *)
(* identifiers of reply texts are only compared for equality and are TLA+  *)
(* strings.                                                                *)
(***************************************************************************)
EXTENDS Integers, Sequences, FiniteSets, TLC

VARIABLES
    store,   \* _STATE of app/telegram/state.py: chat -> state dict, or None
    out,     \* what the last update did: entry point, state found, calls made
    race,    \* updates of one chat in flight at the same time, and their dicts
    client   \* _client of app/gpt_fallback.py: the cached OpenAI client, or None

vars == <<store, out, race, client>>

----------------------------------------------------------------------------
(* Python string primitives *)

DigitChars == <<"0", "1", "2", "3", "4", "5", "6", "7", "8", "9">>

UpperChars == <<"A", "B", "C", "D", "E", "F", "G", "H", "I", "J", "K", "L", "M",
                "N", "O", "P", "Q", "R", "S", "T", "U", "V", "W", "X", "Y", "Z">>

LowerChars == <<"a", "b", "c", "d", "e", "f", "g", "h", "i", "j", "k", "l", "m",
                "n", "o", "p", "q", "r", "s", "t", "u", "v", "w", "x", "y", "z">>

IsDigit(ch) == \E i \in 1..10 : DigitChars[i] = ch

DigitVal(ch) == (CHOOSE i \in 1..10 : DigitChars[i] = ch) - 1

IsSpace(ch) == ch \in {" ", "\t", "\n"}

LowerChar(ch) ==
    IF \E i \in 1..26 : UpperChars[i] = ch
    THEN LowerChars[CHOOSE i \in 1..26 : UpperChars[i] = ch]
    ELSE ch

\* str.lower()
Lower(s) == [i \in 1..Len(s) |-> LowerChar(s[i])]

\* str.strip()
RECURSIVE LStrip(_)
LStrip(s) == IF s # <<>> /\ IsSpace(Head(s)) THEN LStrip(Tail(s)) ELSE s

RECURSIVE RStrip(_)
RStrip(s) ==
    IF s # <<>> /\ IsSpace(s[Len(s)]) THEN RStrip(SubSeq(s, 1, Len(s) - 1)) ELSE s

Strip(s) == RStrip(LStrip(s))

\* str.startswith(p)
StartsWith(s, p) == Len(s) >= Len(p) /\ SubSeq(s, 1, Len(p)) = p

\* str.removeprefix(p)
RemovePrefix(s, p) == IF StartsWith(s, p) THEN SubSeq(s, Len(p) + 1, Len(s)) ELSE s

\* str.replace(",", ".")
ReplaceComma(s) == [i \in 1..Len(s) |-> IF s[i] = "," THEN "." ELSE s[i]]

AllDigits(s) == \A i \in 1..Len(s) : IsDigit(s[i])

RECURSIVE NatOf(_)
NatOf(ds) ==
    IF ds = <<>> THEN 0
    ELSE 10 * NatOf(SubSeq(ds, 1, Len(ds) - 1)) + DigitVal(ds[Len(ds)])

HasSign(s) == s # <<>> /\ Head(s) \in {"+", "-"}

Unsigned(s) == IF HasSign(s) THEN Tail(s) ELSE s

SignOf(s) == IF s # <<>> /\ Head(s) = "-" THEN -1 ELSE 1

\* int(str): surrounding whitespace, an optional sign, then decimal digits;
\* anything else raises ValueError (ok = FALSE).
IntOfDigits(sign, b) ==
    IF b # <<>> /\ AllDigits(b)
    THEN [ok |-> TRUE, v |-> sign * NatOf(b)]
    ELSE [ok |-> FALSE, v |-> 0]

PyInt(s) == IntOfDigits(SignOf(Strip(s)), Unsigned(Strip(s)))

\* Positions of "." in s
DotsOf(s) == {i \in 1..Len(s) : s[i] = "."}

\* The first three fractional digits as thousandths
Thousandths(f) ==
    LET d(i) == IF i <= Len(f) THEN DigitVal(f[i]) ELSE 0
    IN  100 * d(1) + 10 * d(2) + d(3)

\* float(str): surrounding whitespace, an optional sign, then "nan", "inf" or
\* "infinity" in any letter case, or digits with at most one point and at
\* least one digit.  A finite value is kept in thousandths (m); digits past
\* the third fractional one are dropped.  Exponents and digit-group
\* underscores are not part of the inputs drawn here and parse as failures.
\* the digits before (ip) and after (fp) the point
FloatOfParts(sign, ip, fp) ==
    IF ~(AllDigits(ip) /\ AllDigits(fp)) \/ Len(ip) + Len(fp) = 0
    THEN [ok |-> FALSE, k |-> "fin", m |-> 0]
    ELSE [ok |-> TRUE, k |-> "fin", m |-> sign * (1000 * NatOf(ip) + Thousandths(fp))]

\* b split at its point p (Len(b) + 1 when it has none)
FloatOfPoint(sign, b, p) ==
    FloatOfParts(sign, SubSeq(b, 1, p - 1), SubSeq(b, p + 1, Len(b)))

\* b is the text without its sign, w its lower-case form, dots its points
FloatOfUnsigned(sign, b, w, dots) ==
    IF w = <<"n", "a", "n">> THEN [ok |-> TRUE, k |-> "nan", m |-> 0]
    ELSE IF w = <<"i", "n", "f">> \/ w = <<"i", "n", "f", "i", "n", "i", "t", "y">>
    THEN [ok |-> TRUE, k |-> IF sign < 0 THEN "-inf" ELSE "inf", m |-> 0]
    ELSE IF Cardinality(dots) > 1 THEN [ok |-> FALSE, k |-> "fin", m |-> 0]
    ELSE FloatOfPoint(sign, b, IF dots = {} THEN Len(b) + 1 ELSE CHOOSE i \in dots : TRUE)

PyFloat(s) ==
    FloatOfUnsigned(SignOf(Strip(s)), Unsigned(Strip(s)), Lower(Unsigned(Strip(s))),
                    DotsOf(Unsigned(Strip(s))))

----------------------------------------------------------------------------
(* Python values held in a state's data *)

NULL == [t |-> "null"]

PInt(n) == [t |-> "int", v |-> n]

\* a float: k is "fin", "nan", "inf" or "-inf"; m is the value in thousandths
PFloat(k, m) == [t |-> "float", k |-> k, m |-> m]

PStr(s) == [t |-> "str", v |-> s]

\* bool(value)
Truthy(x) ==
    CASE x.t = "null" -> FALSE
      [] x.t = "int" -> x.v # 0
      [] x.t = "float" -> ~(x.k = "fin" /\ x.m = 0)
      [] x.t = "str" -> x.v # <<>>
      [] OTHER -> TRUE

\* val <= n and val > n for a float val and an integer n (both false of nan)
FloatLe(x, n) == (x.k = "fin" /\ x.m <= 1000 * n) \/ x.k = "-inf"

FloatGt(x, n) == (x.k = "fin" /\ x.m > 1000 * n) \/ x.k = "inf"

\* int(val) of a float raises ValueError for nan and OverflowError for inf
IntRaises(x) == x.k # "fin"

\* int(val) truncates toward zero
IntOfFloat(x) == IF x.m >= 0 THEN x.m \div 1000 ELSE -((-x.m) \div 1000)

\* float(text) if it parses, None on ValueError
FloatOrNone(f) == IF f.ok THEN PFloat(f.k, f.m) ELSE NULL

\* dict helpers: d[k] = v, d.get(k)
Put(d, k, v) == [x \in DOMAIN d \cup {k} |-> IF x = k THEN v ELSE d[x]]

Get(d, k) == IF k \in DOMAIN d THEN d[k] ELSE NULL

----------------------------------------------------------------------------
(* Callback data strings *)

\* A Python str is the sequence of its characters.

\* callback_data of the menu and guidance buttons (app/telegram/ux.py)
MenuCb ==
    [main_menu |-> <<"m", "a", "i", "n", "_", "m", "e", "n", "u">>,
     log_food |-> <<"l", "o", "g", "_", "f", "o", "o", "d">>,
     log_sleep |-> <<"l", "o", "g", "_", "s", "l", "e", "e", "p">>,
     log_exercise |-> <<"l", "o", "g", "_", "e", "x", "e", "r", "c", "i", "s", "e">>,
     view_day |-> <<"v", "i", "e", "w", "_", "d", "a", "y">>,
     start_food |-> <<"s", "t", "a", "r", "t", "_", "f", "o", "o", "d">>,
     start_sleep |-> <<"s", "t", "a", "r", "t", "_", "s", "l", "e", "e", "p">>,
     start_exercise |-> <<"s", "t", "a", "r", "t", "_", "e", "x", "e", "r", "c", "i", "s", "e">>]

\* callback_data the food flow sends and tests (food_flow.py)
FoodCb ==
    [mealtype_breakfast |-> <<"f", "o", "o", "d", "_", "m", "e", "a", "l", "t", "y", "p", "e", "_", "b", "r", "e", "a", "k", "f", "a", "s", "t">>,
     mealtype_lunch |-> <<"f", "o", "o", "d", "_", "m", "e", "a", "l", "t", "y", "p", "e", "_", "l", "u", "n", "c", "h">>,
     mealtype_dinner |-> <<"f", "o", "o", "d", "_", "m", "e", "a", "l", "t", "y", "p", "e", "_", "d", "i", "n", "n", "e", "r">>,
     mealtype_snack |-> <<"f", "o", "o", "d", "_", "m", "e", "a", "l", "t", "y", "p", "e", "_", "s", "n", "a", "c", "k">>,
     cancel |-> <<"f", "o", "o", "d", "_", "c", "a", "n", "c", "e", "l">>,
     macros_yes |-> <<"f", "o", "o", "d", "_", "m", "a", "c", "r", "o", "s", "_", "y", "e", "s">>,
     macros_no |-> <<"f", "o", "o", "d", "_", "m", "a", "c", "r", "o", "s", "_", "n", "o">>,
     notes_yes |-> <<"f", "o", "o", "d", "_", "n", "o", "t", "e", "s", "_", "y", "e", "s">>,
     notes_no |-> <<"f", "o", "o", "d", "_", "n", "o", "t", "e", "s", "_", "n", "o">>,
     confirm |-> <<"f", "o", "o", "d", "_", "c", "o", "n", "f", "i", "r", "m">>,
     edit |-> <<"f", "o", "o", "d", "_", "e", "d", "i", "t">>,
     mealtype_prefix |-> <<"f", "o", "o", "d", "_", "m", "e", "a", "l", "t", "y", "p", "e", "_">>]

\* callback_data the sleep flow sends and tests (sleep_flow.py); q_200 and q_x
\* are tokens no button carries
SleepCb ==
    [q_20 |-> <<"s", "l", "e", "e", "p", "_", "q", "_", "2", "0">>,
     q_55 |-> <<"s", "l", "e", "e", "p", "_", "q", "_", "5", "5">>,
     q_80 |-> <<"s", "l", "e", "e", "p", "_", "q", "_", "8", "0">>,
     q_95 |-> <<"s", "l", "e", "e", "p", "_", "q", "_", "9", "5">>,
     q_200 |-> <<"s", "l", "e", "e", "p", "_", "q", "_", "2", "0", "0">>,
     q_x |-> <<"s", "l", "e", "e", "p", "_", "q", "_", "x">>,
     cancel |-> <<"s", "l", "e", "e", "p", "_", "c", "a", "n", "c", "e", "l">>,
     e_20 |-> <<"s", "l", "e", "e", "p", "_", "e", "_", "2", "0">>,
     e_45 |-> <<"s", "l", "e", "e", "p", "_", "e", "_", "4", "5">>,
     e_70 |-> <<"s", "l", "e", "e", "p", "_", "e", "_", "7", "0">>,
     e_90 |-> <<"s", "l", "e", "e", "p", "_", "e", "_", "9", "0">>,
     skip_start |-> <<"s", "l", "e", "e", "p", "_", "s", "k", "i", "p", "_", "s", "t", "a", "r", "t">>,
     skip_end |-> <<"s", "l", "e", "e", "p", "_", "s", "k", "i", "p", "_", "e", "n", "d">>,
     skip_rhr |-> <<"s", "l", "e", "e", "p", "_", "s", "k", "i", "p", "_", "r", "h", "r">>,
     skip_notes |-> <<"s", "l", "e", "e", "p", "_", "s", "k", "i", "p", "_", "n", "o", "t", "e", "s">>,
     confirm |-> <<"s", "l", "e", "e", "p", "_", "c", "o", "n", "f", "i", "r", "m">>,
     edit |-> <<"s", "l", "e", "e", "p", "_", "e", "d", "i", "t">>,
     q_prefix |-> <<"s", "l", "e", "e", "p", "_", "q", "_">>,
     e_prefix |-> <<"s", "l", "e", "e", "p", "_", "e", "_">>]

\* callback_data the exercise flow sends and tests (exercise_flow.py)
ExCb ==
    [type_Run |-> <<"e", "x", "_", "t", "y", "p", "e", "_", "R", "u", "n">>,
     type_Gym |-> <<"e", "x", "_", "t", "y", "p", "e", "_", "G", "y", "m">>,
     type_Walk |-> <<"e", "x", "_", "t", "y", "p", "e", "_", "W", "a", "l", "k">>,
     type_Cycle |-> <<"e", "x", "_", "t", "y", "p", "e", "_", "C", "y", "c", "l", "e">>,
     type_Other |-> <<"e", "x", "_", "t", "y", "p", "e", "_", "O", "t", "h", "e", "r">>,
     cancel |-> <<"e", "x", "_", "c", "a", "n", "c", "e", "l">>,
     int_3 |-> <<"e", "x", "_", "i", "n", "t", "_", "3">>,
     int_5 |-> <<"e", "x", "_", "i", "n", "t", "_", "5">>,
     int_8 |-> <<"e", "x", "_", "i", "n", "t", "_", "8">>,
     int_10 |-> <<"e", "x", "_", "i", "n", "t", "_", "1", "0">>,
     perc_2 |-> <<"e", "x", "_", "p", "e", "r", "c", "_", "2">>,
     perc_5 |-> <<"e", "x", "_", "p", "e", "r", "c", "_", "5">>,
     perc_8 |-> <<"e", "x", "_", "p", "e", "r", "c", "_", "8">>,
     skip_perc |-> <<"e", "x", "_", "s", "k", "i", "p", "_", "p", "e", "r", "c">>,
     skip_effort |-> <<"e", "x", "_", "s", "k", "i", "p", "_", "e", "f", "f", "o", "r", "t">>,
     skip_tags |-> <<"e", "x", "_", "s", "k", "i", "p", "_", "t", "a", "g", "s">>,
     skip_notes |-> <<"e", "x", "_", "s", "k", "i", "p", "_", "n", "o", "t", "e", "s">>,
     skip_dist |-> <<"e", "x", "_", "s", "k", "i", "p", "_", "d", "i", "s", "t">>,
     skip_cals |-> <<"e", "x", "_", "s", "k", "i", "p", "_", "c", "a", "l", "s">>,
     skip_avg_hr |-> <<"e", "x", "_", "s", "k", "i", "p", "_", "a", "v", "g", "_", "h", "r">>,
     skip_max_hr |-> <<"e", "x", "_", "s", "k", "i", "p", "_", "m", "a", "x", "_", "h", "r">>,
     confirm |-> <<"e", "x", "_", "c", "o", "n", "f", "i", "r", "m">>,
     edit |-> <<"e", "x", "_", "e", "d", "i", "t">>,
     type_prefix |-> <<"e", "x", "_", "t", "y", "p", "e", "_">>,
     int_prefix |-> <<"e", "x", "_", "i", "n", "t", "_">>,
     perc_prefix |-> <<"e", "x", "_", "p", "e", "r", "c", "_">>]

\* the prefixes handle_callback routes by
RouterPrefix ==
    [sleep |-> <<"s", "l", "e", "e", "p", "_">>,
     exercise |-> <<"e", "x", "e", "r", "c", "i", "s", "e", "_">>,
     food |-> <<"f", "o", "o", "d", "_">>]

\* the token handle_callback compares with before the exercise write
T_exercise_confirm == <<"e", "x", "e", "r", "c", "i", "s", "e", "_", "c", "o", "n", "f", "i", "r", "m">>

\* the second token _handle_callback_query starts the food flow on
T_food_start == <<"f", "o", "o", "d", "_", "s", "t", "a", "r", "t">>

----------------------------------------------------------------------------
(* Conversation states and replies *)

\* Optional[state] = None
None == [none |-> TRUE]

\* the empty dict {}
EmptyDict == <<>>

\* bool(state): None and {} are falsy
Active(st) == st # None /\ st # EmptyDict

\* state.get("flow"), state.get("step"): "None" when the key is absent
FlowOf(st) == IF "flow" \in DOMAIN st THEN st.flow ELSE "None"

StepOf(st) == IF "step" \in DOMAIN st THEN st.step ELSE "None"

\* state.get("data") or {}
DataOf(st) == IF "data" \in DOMAIN st THEN st.data ELSE EmptyDict

\* state["step"] = s
SetStep(st, s) == Put(st, "step", s)

\* data[k] = v where data is state.get("data") or {}: the write lands in the
\* state only when state["data"] is a non-empty dict (data is then that very
\* object); the food handlers never assign state["data"] back.
PutData(st, k, v) ==
    IF DataOf(st) # EmptyDict THEN Put(st, "data", Put(st.data, k, v)) ELSE st

\* data[k] = v followed by state["data"] = data (sleep and exercise handlers)
AssignData(st, k, v) == Put(st, "data", Put(DataOf(st), k, v))

\* KeepData that records a zero for the perceived intensity
KeepData_WritesZero(st) == Put(st, "data", Put(DataOf(st), "perceived_intensity", [t |-> "int", v |-> 0]))

\* state["data"] = data with data untouched
KeepData(st) == Put(st, "data", DataOf(st))

\* A reply text: the identifier of the literal, and for a preview its lines
Txt(id) == [id |-> id, lines |-> <<>>]

\* Reply = (text, reply_markup, next state); raised marks an exception that
\* leaves the handler instead of a return value.  A keyboard is the sequence
\* of its buttons' callback_data, row by row; <<>> stands for no keyboard.
Reply(text, kb, st) == [text |-> text, kb |-> kb, state |-> st, raised |-> FALSE]

Raised == [text |-> Txt("exception"), kb |-> <<>>, state |-> None, raised |-> TRUE]

\* the placeholder "\u2014" (em dash) shown for a missing value
DASH == PStr(<<"--">>)

\* x or default
OrElse(x, default) == IF Truthy(x) THEN x ELSE default

\* x if x is not None else default
IfNone(x, default) == IF x = NULL THEN default ELSE x

Line(label, v) == [label |-> label, v |-> v]

\* the lines a preview appends only when the value passes the test
LineIf(cond, label, v) == IF cond THEN <<Line(label, v)>> ELSE <<>>

----------------------------------------------------------------------------
(* Food flow: app/telegram/flows/food_flow.py *)

Food_base_state ==
    [flow |-> "food", step |-> "choose_meal_type",
     data |-> [meal_name |-> NULL, calories |-> NULL, protein_g |-> NULL,
               carbs_g |-> NULL, fat_g |-> NULL, fiber_g |-> NULL,
               notes |-> NULL]]

FoodMealTypeKb == <<FoodCb.mealtype_breakfast, FoodCb.mealtype_lunch,
                    FoodCb.mealtype_dinner, FoodCb.mealtype_snack, FoodCb.cancel>>

FoodMacrosKb == <<FoodCb.macros_yes, FoodCb.macros_no, FoodCb.cancel>>

FoodNotesKb == <<FoodCb.notes_yes, FoodCb.notes_no, FoodCb.cancel>>

FoodPreviewKb == <<FoodCb.confirm, FoodCb.edit, FoodCb.cancel>>

start_food_flow == Reply(Txt("food.start"), FoodMealTypeKb, Food_base_state)

\* the " | "-joined macro parts, one per value that is not None
MacroParts(data) ==
    LET part(k, unit) == IF Get(data, k) # NULL THEN <<Line(unit, Get(data, k))>> ELSE <<>>
    IN  part("calories", "kcal") \o part("protein_g", "g P") \o part("carbs_g", "g C")
        \o part("fat_g", "g F") \o part("fiber_g", "g fibre")

Food_build_preview(data) ==
    [id |-> "food.preview",
     lines |-> <<Line("Type", OrElse(Get(data, "meal_type"), PStr(<<"m", "e", "a", "l">>))),
                 Line("Name", OrElse(Get(data, "meal_name"), PStr(<<"M", "e", "a", "l">>)))>>
               \o (IF MacroParts(data) # <<>>
                   THEN <<[label |-> "Macros", parts |-> MacroParts(data)]>> ELSE <<>>)
               \o LineIf(Truthy(Get(data, "notes")), "Notes", Get(data, "notes"))]

handle_food_callback(callback_data, state) ==
    LET step == StepOf(state)
        data == DataOf(state)
        fallback == Reply(Txt("food.not_understood"), <<>>, state)
    IN  IF callback_data = FoodCb.cancel
        THEN Reply(Txt("food.cancelled"), <<>>, None)
        ELSE IF step = "choose_meal_type" /\ StartsWith(callback_data, FoodCb.mealtype_prefix)
        THEN Reply(Txt("food.got_meal_type"), <<>>,
                   SetStep(PutData(state, "meal_type",
                                   PStr(RemovePrefix(callback_data, FoodCb.mealtype_prefix))),
                           "await_description"))
        ELSE IF step = "ask_macros_choice" /\ callback_data = FoodCb.macros_yes
        THEN Reply(Txt("food.ask_calories"), <<>>, SetStep(state, "await_calories"))
        ELSE IF step = "ask_macros_choice" /\ callback_data = FoodCb.macros_no
        THEN Reply(Txt("food.ask_notes_choice"), FoodNotesKb,
                   SetStep(state, "ask_notes_choice"))
        ELSE IF step = "ask_notes_choice" /\ callback_data = FoodCb.notes_yes
        THEN Reply(Txt("food.ask_notes"), <<>>, SetStep(state, "await_notes"))
        ELSE IF step = "ask_notes_choice" /\ callback_data = FoodCb.notes_no
        THEN Reply(Food_build_preview(data), FoodPreviewKb, SetStep(state, "preview"))
        ELSE IF step = "preview" /\ callback_data = FoodCb.confirm
        THEN Reply(Txt("food.logging"), <<>>, state)
        ELSE IF step = "preview" /\ callback_data = FoodCb.edit
        THEN Reply(Txt("food.edit"), <<>>, SetStep(state, "await_description"))
        ELSE fallback

\* _parse_number: strip, "," -> ".", float(); None on ValueError
Food_parse_number(text) == FloatOrNone(PyFloat(ReplaceComma(Strip(text))))

\* one required-number step of handle_food_text
FoodNumberStep(state, val, key, next, askId, retryId) ==
    IF val = NULL
    THEN Reply(Txt(retryId), <<>>, state)
    ELSE Reply(Txt(askId), <<>>, SetStep(PutData(state, key, val), next))

\* await_fiber: "skip" stores None, a number is stored, anything else re-prompts
FoodFiberStep(state, raw, val) ==
    IF Lower(raw) = <<"s", "k", "i", "p">>
    THEN Reply(Txt("food.ask_notes_choice2"), FoodNotesKb,
               SetStep(PutData(state, "fiber_g", NULL), "ask_notes_choice"))
    ELSE IF val = NULL
    THEN Reply(Txt("food.retry_fiber"), <<>>, state)
    ELSE Reply(Txt("food.ask_notes_choice2"), FoodNotesKb,
               SetStep(PutData(state, "fiber_g", val), "ask_notes_choice"))

\* the last step: the note is stored and the preview built from the data
FoodNotesStep(st) ==
    Reply(Food_build_preview(DataOf(st)), FoodPreviewKb, SetStep(st, "preview"))

\* raw is text.strip() and val is _parse_number(text)
Food_text_step(state, raw, val) ==
    CASE StepOf(state) = "await_description" ->
            Reply(Txt("food.description_saved"), FoodMacrosKb,
                  SetStep(PutData(state, "meal_name", PStr(raw)), "ask_macros_choice"))
      [] StepOf(state) = "await_calories" ->
            FoodNumberStep(state, val, "calories", "await_protein",
                           "food.ask_protein", "food.retry_calories")
      [] StepOf(state) = "await_protein" ->
            FoodNumberStep(state, val, "protein_g", "await_carbs",
                           "food.ask_carbs", "food.retry_protein")
      [] StepOf(state) = "await_carbs" ->
            FoodNumberStep(state, val, "carbs_g", "await_fat",
                           "food.ask_fat", "food.retry_carbs")
      [] StepOf(state) = "await_fat" ->
            FoodNumberStep(state, val, "fat_g", "await_fiber",
                           "food.ask_fiber", "food.retry_fat")
      [] StepOf(state) = "await_fiber" -> FoodFiberStep(state, raw, val)
      [] StepOf(state) = "await_notes" ->
            FoodNotesStep(PutData(state, "notes", PStr(raw)))
      [] OTHER -> Reply(Txt("food.lost"), <<>>, None)

handle_food_text(text, state) == Food_text_step(state, Strip(text), Food_parse_number(text))

----------------------------------------------------------------------------
(* Sleep flow: app/telegram/flows/sleep_flow.py *)

\* Sleep_base_state with a duration already filled in
Sleep_base_state_WithDuration ==
    [flow |-> "sleep", step |-> "ask_quality",
     data |-> [sleep_score |-> NULL, duration_hr |-> [t |-> "int", v |-> 8],
               energy_score |-> NULL, sleep_start |-> NULL, sleep_end |-> NULL,
               resting_hr |-> NULL, notes |-> NULL]]

Sleep_base_state ==
    [flow |-> "sleep", step |-> "ask_quality",
     data |-> [sleep_score |-> NULL, duration_hr |-> NULL, energy_score |-> NULL,
               sleep_start |-> NULL, sleep_end |-> NULL, resting_hr |-> NULL,
               notes |-> NULL]]

SleepQualityKb == <<SleepCb.q_20, SleepCb.q_55, SleepCb.q_80, SleepCb.q_95, SleepCb.cancel>>

SleepEnergyKb == <<SleepCb.e_20, SleepCb.e_45, SleepCb.e_70, SleepCb.e_90>>

SleepPreviewKb == <<SleepCb.confirm, SleepCb.edit, SleepCb.cancel>>

start_sleep_flow == Reply(Txt("sleep.start"), SleepQualityKb, Sleep_base_state)

Sleep_build_preview(data) ==
    LET sleep_start == OrElse(Get(data, "sleep_start"), DASH)
        sleep_end == OrElse(Get(data, "sleep_end"), DASH)
    IN  [id |-> "sleep.preview",
         lines |-> LineIf(Get(data, "sleep_score") # NULL, "Quality", Get(data, "sleep_score"))
                   \o LineIf(Get(data, "duration_hr") # NULL, "Duration", Get(data, "duration_hr"))
                   \o LineIf(Get(data, "energy_score") # NULL, "Morning energy",
                             Get(data, "energy_score"))
                   \o (IF sleep_start # DASH \/ sleep_end # DASH
                       THEN <<[label |-> "Window", from |-> sleep_start, to |-> sleep_end]>>
                       ELSE <<>>)
                   \o LineIf(Get(data, "resting_hr") # NULL, "Resting HR", Get(data, "resting_hr"))
                   \o <<Line("Notes", OrElse(Get(data, "notes"), DASH))>>]

\* a 0..100 score button: int(rest) with ValueError -> None, then the range test
ScoreOf(callback_data, prefix) ==
    LET n == PyInt(RemovePrefix(callback_data, prefix))
    IN  IF n.ok /\ n.v >= 0 /\ n.v <= 100 THEN PInt(n.v) ELSE NULL

handle_sleep_callback(callback_data, state) ==
    LET step == StepOf(state)
        data == DataOf(state)
    IN  IF callback_data = SleepCb.cancel
        THEN Reply(Txt("sleep.cancelled"), <<>>, None)
        ELSE IF step = "ask_quality" /\ StartsWith(callback_data, SleepCb.q_prefix)
        THEN IF ScoreOf(callback_data, SleepCb.q_prefix) = NULL
             THEN Reply(Txt("sleep.invalid_quality"), <<>>, state)
             ELSE Reply(Txt("sleep.ask_duration"), <<>>,
                        SetStep(AssignData(state, "sleep_score",
                                           ScoreOf(callback_data, SleepCb.q_prefix)),
                                "ask_duration"))
        ELSE IF step = "ask_energy" /\ StartsWith(callback_data, SleepCb.e_prefix)
        THEN IF ScoreOf(callback_data, SleepCb.e_prefix) = NULL
             THEN Reply(Txt("sleep.invalid_energy"), <<>>, state)
             ELSE Reply(Txt("sleep.ask_start"), <<SleepCb.skip_start>>,
                        SetStep(AssignData(state, "energy_score",
                                           ScoreOf(callback_data, SleepCb.e_prefix)),
                                "ask_sleep_start"))
        ELSE IF step = "ask_sleep_start" /\ callback_data = SleepCb.skip_start
        THEN Reply(Txt("sleep.ask_end"), <<SleepCb.skip_end>>, SetStep(state, "ask_sleep_end"))
        ELSE IF step = "ask_sleep_end" /\ callback_data = SleepCb.skip_end
        THEN Reply(Txt("sleep.ask_rhr"), <<SleepCb.skip_rhr>>, SetStep(state, "ask_resting_hr"))
        ELSE IF step = "ask_resting_hr" /\ callback_data = SleepCb.skip_rhr
        THEN Reply(Txt("sleep.ask_notes"), <<SleepCb.skip_notes>>, SetStep(state, "ask_notes"))
        ELSE IF step = "ask_notes" /\ callback_data = SleepCb.skip_notes
        THEN Reply(Sleep_build_preview(data), SleepPreviewKb, SetStep(state, "preview"))
        ELSE IF step = "preview" /\ callback_data = SleepCb.confirm
        THEN Reply(Txt("sleep.logging"), <<>>, state)
        ELSE IF step = "preview" /\ callback_data = SleepCb.edit
        THEN Reply(Txt("sleep.edit"), SleepQualityKb, Sleep_base_state)
        ELSE Reply(Txt("sleep.not_understood"), <<>>, state)

Sleep_parse_number(text) == FloatOrNone(PyFloat(ReplaceComma(Strip(text))))

\* text.split(":") has exactly two parts, both int(), hour 0..23, minute 0..59
HourMinuteOk(hour, minute) ==
    /\ hour.ok /\ minute.ok
    /\ hour.v >= 0 /\ hour.v <= 23
    /\ minute.v >= 0 /\ minute.v <= 59

SplitOk(text, p) ==
    HourMinuteOk(PyInt(SubSeq(text, 1, p - 1)), PyInt(SubSeq(text, p + 1, Len(text))))

ColonsOk(text, colons) ==
    Cardinality(colons) = 1 /\ SplitOk(text, CHOOSE i \in colons : TRUE)

Sleep_valid_time(text) == ColonsOk(text, {i \in 1..Len(text) : text[i] = ":"})

IsSkipText(raw) == Lower(raw) = <<"s", "k", "i", "p">>

\* one of the two HH:MM steps of handle_sleep_text
SleepTimeStep(state, raw, key, next, askId, kb, retryId) ==
    IF IsSkipText(raw)
    THEN Reply(Txt(askId), kb, SetStep(state, next))
    ELSE IF ~Sleep_valid_time(raw)
    THEN Reply(Txt(retryId), <<>>, state)
    ELSE Reply(Txt(askId), kb, SetStep(AssignData(state, key, PStr(raw)), next))

\* ask_resting_hr: "skip", or a number > 0 stored as int(val)
SleepRestingHrStep(state, raw, val) ==
    IF IsSkipText(raw)
    THEN Reply(Txt("sleep.ask_notes"), <<SleepCb.skip_notes>>, SetStep(state, "ask_notes"))
    ELSE IF val = NULL \/ FloatLe(val, 0)
    THEN Reply(Txt("sleep.retry_rhr"), <<>>, state)
    ELSE IF IntRaises(val) THEN Raised
    ELSE Reply(Txt("sleep.ask_notes"), <<SleepCb.skip_notes>>,
               SetStep(AssignData(state, "resting_hr", PInt(IntOfFloat(val))), "ask_notes"))

\* ask_notes: the preview is built from the data as stored
SleepNotesStep(st) ==
    Reply(Sleep_build_preview(DataOf(st)), SleepPreviewKb, SetStep(st, "preview"))

\* raw is text.strip() and val is _parse_number(raw)
Sleep_text_step(state, raw, val) ==
    CASE StepOf(state) = "ask_duration" ->
            IF val = NULL \/ FloatLe(val, 0) \/ FloatGt(val, 24)
            THEN Reply(Txt("sleep.retry_duration"), <<>>, state)
            ELSE Reply(Txt("sleep.ask_energy"), SleepEnergyKb,
                       SetStep(AssignData(state, "duration_hr", val), "ask_energy"))
      [] StepOf(state) = "ask_sleep_start" ->
            SleepTimeStep(state, raw, "sleep_start", "ask_sleep_end",
                          "sleep.ask_end", <<SleepCb.skip_end>>, "sleep.retry_start")
      [] StepOf(state) = "ask_sleep_end" ->
            SleepTimeStep(state, raw, "sleep_end", "ask_resting_hr",
                          "sleep.ask_rhr", <<SleepCb.skip_rhr>>, "sleep.retry_end")
      [] StepOf(state) = "ask_resting_hr" -> SleepRestingHrStep(state, raw, val)
      [] StepOf(state) = "ask_notes" ->
            SleepNotesStep(IF IsSkipText(raw) THEN KeepData(state)
                           ELSE AssignData(state, "notes", PStr(raw)))
      [] OTHER -> Reply(Txt("sleep.lost"), <<>>, None)

handle_sleep_text(text, state) ==
    Sleep_text_step(state, Strip(text), Sleep_parse_number(Strip(text)))

----------------------------------------------------------------------------
(* Exercise flow: app/telegram/flows/exercise_flow.py *)

Exercise_base_state ==
    [flow |-> "exercise", step |-> "ask_type",
     data |-> [workout_name |-> NULL, training_type |-> NULL, duration_min |-> NULL,
               distance_km |-> NULL, calories_burned |-> NULL, avg_hr |-> NULL,
               max_hr |-> NULL, training_intensity |-> NULL,
               perceived_intensity |-> NULL, effort_description |-> NULL,
               tags |-> NULL, notes |-> NULL]]

ExerciseTypeKb == <<ExCb.type_Run, ExCb.type_Gym, ExCb.type_Walk, ExCb.type_Cycle,
                    ExCb.type_Other, ExCb.cancel>>

ExerciseIntensityKb == <<ExCb.int_3, ExCb.int_5, ExCb.int_8, ExCb.int_10>>

ExercisePerceivedKb == <<ExCb.perc_2, ExCb.perc_5, ExCb.perc_8, ExCb.skip_perc>>

ExercisePreviewKb == <<ExCb.confirm, ExCb.edit, ExCb.cancel>>

start_exercise_flow == Reply(Txt("exercise.start"), ExerciseTypeKb, Exercise_base_state)

Exercise_build_preview(data) ==
    [id |-> "exercise.preview",
     lines |-> <<Line("Type", OrElse(Get(data, "workout_name"),
                                     PStr(<<"E", "x", "e", "r", "c", "i", "s", "e">>))),
                 Line("Duration", IfNone(Get(data, "duration_min"), DASH)),
                 Line("Dist", IfNone(Get(data, "distance_km"), DASH)),
                 Line("Cals", IfNone(Get(data, "calories_burned"), DASH)),
                 Line("Intensity", IfNone(Get(data, "training_intensity"), DASH)),
                 Line("Perceived", IfNone(Get(data, "perceived_intensity"), DASH)),
                 Line("Effort", OrElse(Get(data, "effort_description"), DASH)),
                 Line("Tags", OrElse(Get(data, "tags"), DASH)),
                 Line("Notes", OrElse(Get(data, "notes"), DASH))>>]

handle_exercise_callback(callback_data, state) ==
    LET step == StepOf(state)
        data == DataOf(state)
        w_type == RemovePrefix(callback_data, ExCb.type_prefix)
        int_val == PyInt(RemovePrefix(callback_data, ExCb.int_prefix))
        perc_val == PyInt(RemovePrefix(callback_data, ExCb.perc_prefix))
    IN  IF callback_data = ExCb.cancel
        THEN Reply(Txt("exercise.cancelled"), <<>>, None)
        ELSE IF step = "ask_type" /\ StartsWith(callback_data, ExCb.type_prefix)
        THEN Reply(Txt("exercise.ask_duration"), <<>>,
                   SetStep(AssignData(AssignData(state, "workout_name", PStr(w_type)),
                                      "training_type", PStr(Lower(w_type))),
                           "ask_duration"))
        ELSE IF step = "ask_intensity" /\ StartsWith(callback_data, ExCb.int_prefix)
        THEN Reply(Txt("exercise.ask_perceived"), ExercisePerceivedKb,
                   SetStep(AssignData(state, "training_intensity",
                                      PInt(IF int_val.ok THEN int_val.v ELSE 5)),
                           "ask_perceived"))
        ELSE IF step = "ask_perceived"
        THEN Reply(Txt("exercise.ask_effort"), <<ExCb.skip_effort>>,
                   SetStep(IF StartsWith(callback_data, ExCb.perc_prefix) /\ perc_val.ok
                           THEN AssignData(state, "perceived_intensity", PInt(perc_val.v))
                           ELSE KeepData(state),
                           "ask_effort"))
        ELSE IF step = "ask_effort" /\ callback_data = ExCb.skip_effort
        THEN Reply(Txt("exercise.ask_tags"), <<ExCb.skip_tags>>, SetStep(state, "ask_tags"))
        ELSE IF step = "ask_tags" /\ callback_data = ExCb.skip_tags
        THEN Reply(Txt("exercise.ask_notes"), <<ExCb.skip_notes>>, SetStep(state, "ask_notes"))
        ELSE IF step = "ask_notes" /\ callback_data = ExCb.skip_notes
        THEN Reply(Exercise_build_preview(data), ExercisePreviewKb, SetStep(state, "preview"))
        ELSE IF callback_data = ExCb.skip_dist
        THEN Reply(Txt("exercise.ask_calories"), <<ExCb.skip_cals>>,
                   SetStep(state, "ask_calories"))
        ELSE IF callback_data = ExCb.skip_cals
        THEN Reply(Txt("exercise.ask_avg_hr"), <<ExCb.skip_avg_hr>>,
                   SetStep(state, "ask_avg_hr"))
        ELSE IF callback_data = ExCb.skip_avg_hr
        THEN Reply(Txt("exercise.ask_max_hr"), <<ExCb.skip_max_hr>>,
                   SetStep(state, "ask_max_hr"))
        ELSE IF callback_data = ExCb.skip_max_hr
        THEN Reply(Txt("exercise.ask_intensity"), ExerciseIntensityKb,
                   SetStep(state, "ask_intensity"))
        ELSE IF step = "preview" /\ callback_data = ExCb.confirm
        THEN Reply(Txt("exercise.logging"), <<>>, state)
        ELSE IF step = "preview" /\ callback_data = ExCb.edit
        THEN Reply(Txt("exercise.edit"), ExerciseTypeKb, Exercise_base_state)
        ELSE Reply(Txt("exercise.not_understood"), <<>>, state)

Exercise_parse_number(text) == FloatOrNone(PyFloat(ReplaceComma(Strip(text))))

\* an optional-number step of handle_exercise_text: the value is stored only
\* when it parses and is > 0; the step advances either way.  asInt: the value
\* is stored as int(val), which raises for inf.
ExerciseNumberStep(state, val, key, asInt, next, askId, kb) ==
    IF val # NULL /\ FloatGt(val, 0)
    THEN IF asInt /\ IntRaises(val) THEN Raised
         ELSE Reply(Txt(askId), kb,
                    SetStep(AssignData(state, key,
                                       IF asInt THEN PInt(IntOfFloat(val)) ELSE val),
                            next))
    ELSE Reply(Txt(askId), kb, SetStep(KeepData(state), next))

\* a free-text step of handle_exercise_text: anything but "skip" is stored
ExerciseTextStep(state, raw, key) ==
    IF IsSkipText(raw) THEN KeepData(state) ELSE AssignData(state, key, PStr(raw))

\* ask_notes: the preview is built from the data as stored
ExerciseNotesStep(st) ==
    Reply(Exercise_build_preview(DataOf(st)), ExercisePreviewKb, SetStep(st, "preview"))

\* raw is text.strip() and val is _parse_number(raw)
Exercise_text_step(state, raw, val) ==
    CASE StepOf(state) = "ask_duration" ->
            IF val = NULL \/ FloatLe(val, 0)
            THEN Reply(Txt("exercise.retry_duration"), <<>>, state)
            ELSE IF IntRaises(val) THEN Raised
            ELSE Reply(Txt("exercise.ask_distance"), <<ExCb.skip_dist>>,
                       SetStep(AssignData(state, "duration_min", PInt(IntOfFloat(val))),
                               "ask_distance"))
      [] StepOf(state) = "ask_distance" ->
            ExerciseNumberStep(state, val, "distance_km", FALSE, "ask_calories",
                               "exercise.ask_calories", <<ExCb.skip_cals>>)
      [] StepOf(state) = "ask_calories" ->
            ExerciseNumberStep(state, val, "calories_burned", TRUE, "ask_avg_hr",
                               "exercise.ask_avg_hr", <<ExCb.skip_avg_hr>>)
      [] StepOf(state) = "ask_avg_hr" ->
            ExerciseNumberStep(state, val, "avg_hr", TRUE, "ask_max_hr",
                               "exercise.ask_max_hr", <<ExCb.skip_max_hr>>)
      [] StepOf(state) = "ask_max_hr" ->
            ExerciseNumberStep(state, val, "max_hr", TRUE, "ask_intensity",
                               "exercise.ask_intensity", ExerciseIntensityKb)
      [] StepOf(state) = "ask_effort" ->
            Reply(Txt("exercise.ask_tags"), <<ExCb.skip_tags>>,
                  SetStep(ExerciseTextStep(state, raw, "effort_description"), "ask_tags"))
      [] StepOf(state) = "ask_tags" ->
            Reply(Txt("exercise.ask_notes"), <<ExCb.skip_notes>>,
                  SetStep(ExerciseTextStep(state, raw, "tags"), "ask_notes"))
      [] StepOf(state) = "ask_notes" ->
            ExerciseNotesStep(ExerciseTextStep(state, raw, "notes"))
      [] OTHER -> Reply(Txt("exercise.lost"), <<>>, None)

handle_exercise_text(text, state) ==
    Exercise_text_step(state, Strip(text), Exercise_parse_number(Strip(text)))

----------------------------------------------------------------------------
(* Collaborator calls, in the order an entry point makes them *)

CGet == [op |-> "get_state"]

CSet(st) == [op |-> "set_state", state |-> st]

CClear == [op |-> "clear_state"]

CHandler(name) == [op |-> name]

CInsert(table, record, ok) == [op |-> "insert_record", table |-> table, record |-> record, ok |-> ok]

CSend(text, kb) == [op |-> "send_message", text |-> text, kb |-> kb]

CAck == [op |-> "answer_callback_query"]

CLog(container, error) == [op |-> "log_entry", container |-> container, error |-> error]

\* str(e) of the exception insert_record caught
StorageError == <<"E", "5", "0", "3">>

\* f"... Could not log <what>.\n{error}"
FailureText(id) == [id |-> id, lines |-> <<Line("error", PStr(StorageError))>>]

----------------------------------------------------------------------------
(* Per-chat state store: app/telegram/state.py *)

Chats == {"c1", "c2"}

\* get_state that reads the first chat's entry whatever the key
get_state_OfFirstChat(s, c) == s["c1"]

\* get_state: _STATE.get(key)
get_state(s, c) == s[c]

\* set_state on a store with a single slot shared by every chat
set_state_SharedSlot(s, c, st) == [d \in DOMAIN s |-> st]

\* set_state that keeps a state the chat already has (dict.setdefault)
set_state_KeepsExisting(s, c, st) == IF s[c] = None THEN [s EXCEPT ![c] = st] ELSE s

\* set_state: _STATE[key] = state
set_state(s, c, st) == [s EXCEPT ![c] = st]

\* clear_state: _STATE.pop(key, None)
clear_state(s, c) == [s EXCEPT ![c] = None]

\* the store after the set_state / clear_state calls of a call sequence
RECURSIVE StoreAfter(_, _, _)
StoreAfter(s, c, calls) ==
    IF calls = <<>> THEN s
    ELSE LET h == Head(calls)
             s1 == CASE h.op = "set_state" -> set_state(s, c, h.state)
                     [] h.op = "clear_state" -> clear_state(s, c)
                     [] OTHER -> s
         IN  StoreAfter(s1, c, Tail(calls))

\* what out remembers of the state an update found
Summary(st) ==
    [kind |-> IF st = None THEN "None" ELSE IF st = EmptyDict THEN "empty" ELSE "dict",
     flow |-> FlowOf(st), step |-> StepOf(st)]

----------------------------------------------------------------------------
(* Callback router: app/telegram/callbacks.py *)

MainMenuKb == <<MenuCb.log_food, MenuCb.log_sleep, MenuCb.log_exercise, MenuCb.view_day>>

\* MainMenuReply with the chat's state dropped when the menu is shown
MainMenuReply_ClearsState == <<CClear, CSend(Txt("main_menu"), MainMenuKb), CAck>>

\* data == "main_menu": the static menu and the ack, before get_state
MainMenuReply == <<CSend(Txt("main_menu"), MainMenuKb), CAck>>

\* datetime.strptime(value, "%H:%M") / "%H.%M": one or two digits, the
\* separator, one or two digits; hour 0..23, minute 0..59
StrpTime(value, sep) ==
    LET seps == {i \in 1..Len(value) : value[i] = sep}
        p == CHOOSE i \in seps : TRUE
        hh == SubSeq(value, 1, p - 1)
        mm == SubSeq(value, p + 1, Len(value))
    IN  IF /\ Cardinality(seps) = 1
           /\ Len(hh) \in 1..2 /\ Len(mm) \in 1..2
           /\ AllDigits(hh) /\ AllDigits(mm)
           /\ NatOf(hh) <= 23 /\ NatOf(mm) <= 59
        THEN [ok |-> TRUE, h |-> NatOf(hh), m |-> NatOf(mm)]
        ELSE [ok |-> FALSE, h |-> 0, m |-> 0]

\* _parse_hhmm
parse_hhmm(value) ==
    LET bad == [ok |-> FALSE, h |-> 0, m |-> 0]
    IN  IF value.t # "str" THEN bad
        ELSE IF Strip(value.v) = <<>> THEN bad
        ELSE IF StrpTime(Strip(value.v), ":").ok THEN StrpTime(Strip(value.v), ":")
        ELSE StrpTime(Strip(value.v), ".")

\* a timestamp: day is 0 for today (UTC) and -1 for yesterday
PDateTime(day, h, m) == [t |-> "datetime", day |-> day, h |-> h, m |-> m]

\* _attach_sleep_timestamps
attach_sleep_timestamps(record) ==
    LET start_raw == Get(record, "sleep_start")
        end_raw == Get(record, "sleep_end")
        start_time == parse_hhmm(start_raw)
        end_time == parse_hhmm(end_raw)
        later == start_time.h > end_time.h
                 \/ (start_time.h = end_time.h /\ start_time.m > end_time.m)
        start_day == IF start_time.ok /\ end_time.ok /\ later THEN -1 ELSE 0
        r1 == IF start_time.ok
              THEN Put(record, "sleep_start", PDateTime(start_day, start_time.h, start_time.m))
              ELSE record
    IN  IF ~Truthy(start_raw) /\ ~Truthy(end_raw) THEN record
        ELSE IF ~start_time.ok /\ ~end_time.ok THEN record
        ELSE IF end_time.ok
        THEN Put(r1, "sleep_end", PDateTime(0, end_time.h, end_time.m))
        ELSE r1

\* record = dict(data); record["chat_id"] = str(chat_id); record["date"] = today
RecordOf(data, c) ==
    Put(Put(data, "chat_id", PStr(<<c>>)), "date", [t |-> "date", day |-> 0])

\* new_state or state
FinalState(new_state, state) == IF Active(new_state) THEN new_state ELSE state

\* RouteReply with the write made for the confirm token at any step and with
\* or without a stored state
RouteReply_ConfirmWithoutPreview(c, data, state, r, table, confirmToken, record, okId, failId, ok) ==
    IF data = confirmToken
    THEN IF ok
         THEN <<CInsert(table, record, TRUE), CClear, CSend(Txt(okId), <<>>), CAck>>
         ELSE <<CInsert(table, record, FALSE), CSend(FailureText(failId), <<>>), CClear, CAck>>
    ELSE <<IF r.state = None THEN CClear ELSE CSet(r.state), CSend(r.text, r.kb), CAck>>

\* RouteReply with the failure path returning before clear_state
RouteReply_KeepStateOnFailure(c, data, state, r, table, confirmToken, record, okId, failId, ok) ==
    IF Active(state) /\ StepOf(state) = "preview" /\ data = confirmToken
    THEN IF ok
         THEN <<CInsert(table, record, TRUE), CClear, CSend(Txt(okId), <<>>), CAck>>
         ELSE <<CInsert(table, record, FALSE), CSend(FailureText(failId), <<>>), CAck>>
    ELSE <<IF r.state = None THEN CClear ELSE CSet(r.state), CSend(r.text, r.kb), CAck>>

\* RouteReply with the next state always handed to set_state, None included
RouteReply_SetsNullState(c, data, state, r, table, confirmToken, record, okId, failId, ok) ==
    IF Active(state) /\ StepOf(state) = "preview" /\ data = confirmToken
    THEN IF ok
         THEN <<CInsert(table, record, TRUE), CClear, CSend(Txt(okId), <<>>), CAck>>
         ELSE <<CInsert(table, record, FALSE), CSend(FailureText(failId), <<>>), CClear, CAck>>
    ELSE <<CSet(r.state), CSend(r.text, r.kb), CAck>>

\* RouteReply with the write made for the confirm token at any step of a
\* stored state
RouteReply_ConfirmAtAnyStep(c, data, state, r, table, confirmToken, record, okId, failId, ok) ==
    IF Active(state) /\ data = confirmToken
    THEN IF ok
         THEN <<CInsert(table, record, TRUE), CClear, CSend(Txt(okId), <<>>), CAck>>
         ELSE <<CInsert(table, record, FALSE), CSend(FailureText(failId), <<>>), CClear, CAck>>
    ELSE <<IF r.state = None THEN CClear ELSE CSet(r.state), CSend(r.text, r.kb), CAck>>

\* RouteReply with the failure path returning before answer_callback_query
RouteReply_FailureUnacknowledged(c, data, state, r, table, confirmToken, record, okId, failId, ok) ==
    IF Active(state) /\ StepOf(state) = "preview" /\ data = confirmToken
    THEN IF ok
         THEN <<CInsert(table, record, TRUE), CClear, CSend(Txt(okId), <<>>), CAck>>
         ELSE <<CInsert(table, record, FALSE), CSend(FailureText(failId), <<>>), CClear>>
    ELSE <<IF r.state = None THEN CClear ELSE CSet(r.state), CSend(r.text, r.kb), CAck>>

\* the tail every flow branch of handle_callback shares: the confirm write,
\* or set/clear of the handler's next state, then the reply and the ack
RouteReply(c, data, state, r, table, confirmToken, record, okId, failId, ok) ==
    IF Active(state) /\ StepOf(state) = "preview" /\ data = confirmToken
    THEN IF ok
         THEN <<CInsert(table, record, TRUE), CClear, CSend(Txt(okId), <<>>), CAck>>
         ELSE <<CInsert(table, record, FALSE), CSend(FailureText(failId), <<>>), CClear, CAck>>
    ELSE <<IF r.state = None THEN CClear ELSE CSet(r.state), CSend(r.text, r.kb), CAck>>

\* handle_callback: the calls it makes, in order, for callback data `data`
\* from chat c when the store is s and the insert (if made) reports ok
handle_callback_calls(s, c, data, ok) ==
    LET state == IF Active(get_state(s, c)) THEN get_state(s, c) ELSE EmptyDict
        rs == handle_sleep_callback(data, state)
        re == handle_exercise_callback(data, state)
        rf == handle_food_callback(data, state)
    IN  IF data = MenuCb.main_menu
        THEN MainMenuReply
        ELSE IF (Active(state) /\ FlowOf(state) = "sleep") \/ StartsWith(data, RouterPrefix.sleep)
        THEN <<CGet, CHandler("handle_sleep_callback")>>
             \o RouteReply(c, data, state, rs, "sleep", SleepCb.confirm,
                           attach_sleep_timestamps(
                               RecordOf(DataOf(FinalState(rs.state, state)), c)),
                           "sleep.logged", "sleep.insert_failed", ok)
        ELSE IF (Active(state) /\ FlowOf(state) = "exercise") \/ StartsWith(data, RouterPrefix.exercise)
        THEN <<CGet, CHandler("handle_exercise_callback")>>
             \o RouteReply(c, data, state, re, "exercise", T_exercise_confirm,
                           RecordOf(DataOf(FinalState(re.state, state)), c),
                           "exercise.logged", "exercise.insert_failed", ok)
        ELSE IF (Active(state) /\ FlowOf(state) = "food") \/ StartsWith(data, RouterPrefix.food)
        THEN <<CGet, CHandler("handle_food_callback")>>
             \o RouteReply(c, data, state, rf, "food", FoodCb.confirm,
                           RecordOf(DataOf(FinalState(rf.state, state)), c),
                           "food.logged", "food.insert_failed", ok)
        ELSE IF data = MenuCb.log_sleep
        THEN <<CGet, CHandler("start_sleep_flow"), CSet(start_sleep_flow.state),
               CSend(start_sleep_flow.text, start_sleep_flow.kb), CAck>>
        ELSE IF data = MenuCb.log_exercise
        THEN <<CGet, CHandler("start_exercise_flow"), CSet(start_exercise_flow.state),
               CSend(start_exercise_flow.text, start_exercise_flow.kb), CAck>>
        ELSE IF data = MenuCb.log_food
        THEN <<CGet, CHandler("start_food_flow"), CSet(start_food_flow.state),
               CSend(start_food_flow.text, start_food_flow.kb), CAck>>
        ELSE <<CGet, CAck>>

----------------------------------------------------------------------------
(* Text dispatch into the active flow.  webhook() contains this dispatch for *)
(* the food flow (webhook.py lines 57-69); the callers of handle_sleep_text  *)
(* and handle_exercise_text are not among the sources, so the same contract  *)
(* (spec section 4.2: delegate to the flow's text handler, clear on a null   *)
(* next state, else persist, then send) is applied to them.                  *)

TextHandlerName(flow) ==
    CASE flow = "food" -> "handle_food_text"
      [] flow = "sleep" -> "handle_sleep_text"
      [] flow = "exercise" -> "handle_exercise_text"
      [] OTHER -> "none"

TextReply(flow, raw_text, state) ==
    CASE flow = "food" -> handle_food_text(raw_text, state)
      [] flow = "sleep" -> handle_sleep_text(raw_text, state)
      [] OTHER -> handle_exercise_text(raw_text, state)

\* new_state is None -> clear_state, else set_state; then send_message.  An
\* exception raised by the handler propagates: nothing is stored or sent.
AfterTextReply(r) ==
    IF r.raised THEN <<[op |-> "raise"]>>
    ELSE <<IF r.state = None THEN CClear ELSE CSet(r.state), CSend(r.text, r.kb)>>

DispatchText(flow, raw_text, state) ==
    <<CGet, CHandler(TextHandlerName(flow))>> \o AfterTextReply(TextReply(flow, raw_text, state))

flow_text_calls(s, c, text) ==
    LET raw_text == Strip(text)
        state == get_state(s, c)
    IN  IF raw_text = <<>> THEN <<>>
        ELSE IF Active(state) /\ FlowOf(state) \in {"food", "sleep", "exercise"}
        THEN DispatchText(FlowOf(state), raw_text, state)
        ELSE <<CGet>>

----------------------------------------------------------------------------
(* Webhook endpoint: app/api/webhook.py *)

StartFoodCommands ==
    {<<"/", "f", "o", "o", "d">>,
     <<"l", "o", "g", " ", "f", "o", "o", "d">>,
     <<"a", "d", "d", " ", "f", "o", "o", "d">>,
     <<"l", "o", "g", " ", "m", "e", "a", "l">>}

\* VALID_CONTAINERS with the parser's "unknown" let in
VALID_CONTAINERS_WithUnknown == {"food", "sleep", "exercise", "unknown"}

VALID_CONTAINERS == {"food", "sleep", "exercise"}

\* the text branch of webhook(): parsed is what parse_text_message does with
\* the text ("raise", or the container it returns)
webhook_calls(s, c, text, parsed, ok) ==
    LET raw_text == Strip(text)
        state == get_state(s, c)
        record == RecordOf(EmptyDict, c)
    IN  IF raw_text = <<>> THEN <<>>
        ELSE IF Active(state) /\ FlowOf(state) = "food"
        THEN DispatchText("food", raw_text, state)
        ELSE IF Lower(raw_text) \in StartFoodCommands
        THEN <<CGet, CHandler("start_food_flow"), CSet(start_food_flow.state),
               CSend(start_food_flow.text, start_food_flow.kb)>>
        ELSE IF parsed = "raise"
        THEN <<CGet, CHandler("parse_text_message"), CSend(Txt("parser.error"), <<>>),
               CLog("error", "exception")>>
        ELSE IF parsed \notin VALID_CONTAINERS
        THEN <<CGet, CHandler("parse_text_message"),
               CLog(parsed, "invalid_or_unknown_container"),
               CSend(Txt("parsed.unknown"), <<MenuCb.start_food, MenuCb.start_sleep, MenuCb.start_exercise>>)>>
        ELSE IF ~ok
        THEN <<CGet, CHandler("parse_text_message"), CInsert(parsed, record, FALSE),
               CSend(FailureText("entry.insert_failed"), <<>>), CLog(parsed, "insert")>>
        ELSE <<CGet, CHandler("parse_text_message"), CInsert(parsed, record, TRUE),
               CSend(Txt("parsed.logged"), <<>>)>>

\* jsonify({"ok": ...}) returned by the text branch
webhook_result(s, c, text, parsed, ok) ==
    LET raw_text == Strip(text)
        state == get_state(s, c)
        inFlow == Active(state) /\ FlowOf(state) = "food"
        command == Lower(raw_text) \in StartFoodCommands
    IN  IF raw_text = <<>> \/ inFlow \/ command THEN
            IF raw_text # <<>> /\ inFlow /\ handle_food_text(raw_text, state).raised
            THEN "exception" ELSE "ok_true"
        ELSE IF parsed = "raise" THEN "ok_false"
        ELSE IF parsed \in VALID_CONTAINERS /\ ~ok THEN "ok_false"
        ELSE "ok_true"

\* build_callback_reply (app/telegram/ux.py): guidance text, or None
build_callback_reply(data) ==
    CASE data = MenuCb.start_food -> <<CSend(Txt("guide.food"), <<>>)>>
      [] data = MenuCb.start_sleep -> <<CSend(Txt("guide.sleep"), <<>>)>>
      [] data = MenuCb.start_exercise -> <<CSend(Txt("guide.exercise"), <<>>)>>
      [] OTHER -> <<>>

\* _handle_callback_query
handle_callback_query_calls(s, c, data, ok) ==
    LET state == get_state(s, c)
        r == handle_food_callback(data, state)
        record == RecordOf(DataOf(FinalState(r.state, state)), c)
    IN  IF data \in {MenuCb.start_food, T_food_start}
        THEN <<CGet, CHandler("start_food_flow"), CSet(start_food_flow.state),
               CSend(start_food_flow.text, start_food_flow.kb), CAck>>
        ELSE IF Active(state) /\ FlowOf(state) = "food" /\ StartsWith(data, RouterPrefix.food)
        THEN <<CGet, CHandler("handle_food_callback")>>
             \o (IF StepOf(state) = "preview" /\ data = FoodCb.confirm
                 THEN IF ok
                      THEN <<CInsert("food", record, TRUE), CClear,
                             CSend(Txt("food.meal_logged"), <<>>), CAck>>
                      ELSE <<CInsert("food", record, FALSE),
                             CSend(FailureText("food.meal_insert_failed"), <<>>),
                             CLog("food", "insert"), CClear, CAck>>
                 ELSE <<IF r.state = None THEN CClear ELSE CSet(r.state),
                        CSend(r.text, r.kb), CAck>>)
        ELSE <<CGet>> \o build_callback_reply(data) \o <<CAck>>

----------------------------------------------------------------------------
(* Inputs *)

X_7_5 == <<"7", ".", "5">>
X_skip == <<"s", "k", "i", "p">>
X_food_cmd == <<"/", "f", "o", "o", "d">>
T_unknown == <<"z", "z", "z">>

\* callback data a client can send: every button the bot produces (one of
\* each family of choice buttons), the confirm token the router tests for
\* exercise, two malformed quality tokens and an unknown token
FoodTokens ==
    {FoodCb.mealtype_lunch, FoodCb.cancel, FoodCb.macros_yes, FoodCb.macros_no,
     FoodCb.notes_yes, FoodCb.notes_no, FoodCb.confirm, FoodCb.edit}

SleepTokens ==
    {SleepCb.q_80, SleepCb.q_200, SleepCb.q_x, SleepCb.cancel, SleepCb.e_70,
     SleepCb.skip_start, SleepCb.skip_end, SleepCb.skip_rhr, SleepCb.skip_notes,
     SleepCb.confirm, SleepCb.edit}

ExerciseTokens ==
    {ExCb.type_Run, ExCb.cancel, ExCb.int_5, ExCb.perc_5, ExCb.skip_perc,
     ExCb.skip_effort, ExCb.skip_tags, ExCb.skip_notes, ExCb.skip_dist,
     ExCb.skip_cals, ExCb.skip_avg_hr, ExCb.skip_max_hr, ExCb.confirm, ExCb.edit,
     T_exercise_confirm}

MenuTokens ==
    {MenuCb.main_menu, MenuCb.log_food, MenuCb.log_sleep, MenuCb.log_exercise, MenuCb.view_day,
     MenuCb.start_food, MenuCb.start_sleep, MenuCb.start_exercise, T_food_start, T_unknown}

Tokens == FoodTokens \cup SleepTokens \cup ExerciseTokens \cup MenuTokens

Texts == {X_7_5, X_skip}

ParseOutcomes == {"raise", "food", "sleep", "exercise", "unknown"}

\* the chat the updates of a run are addressed to: handlers use chat_id only
\* as the key of the store, so one chat stands for any
Driven == {"c1"}

\* the updates being handled at the same time, and the dicts they refer to:
\* nothing in flight
Workers == {"w1", "w2"}

ObjIds == 1..5

RaceChat == "c1"

RaceTokens == {MenuCb.log_sleep, SleepCb.q_80, SleepCb.q_x, SleepCb.cancel}

IdleWorker == [pc |-> "idle", data |-> <<>>, ref |-> 0, wop |-> "none", wref |-> 0]

RaceIdle ==
    [base |-> None, overlapped |-> FALSE, sid |-> 0, heap |-> [i \in ObjIds |-> None],
     inserts |-> <<>>, w |-> [k \in Workers |-> IdleWorker]]

----------------------------------------------------------------------------
(* Actions: one per entry point *)

\* An update is handled to completion: the store changes as the calls say,
\* and out keeps what the update found and did.
Effect(via, c, calls, result) ==
    /\ store' = StoreAfter(store, c, calls)
    /\ out' = [via |-> via, chat |-> c, pre |-> Summary(store[c]),
               calls |-> calls, result |-> result]
    /\ UNCHANGED <<race, client>>

\* the insert outcomes that matter: both when the update makes an insert
Outcomes(calls) == IF \E i \in 1..Len(calls) : calls[i].op = "insert_record"
                   THEN BOOLEAN ELSE {TRUE}

\* handle_callback(update) for an update with a callback id and a chat id
HandleCallback(c, data) ==
    \E ok \in Outcomes(handle_callback_calls(store, c, data, TRUE)) :
        Effect("handle_callback", c, handle_callback_calls(store, c, data, ok), "returned")

\* handle_callback(update) without a callback id or chat id: returns at once
HandleMalformedCallback(c) == Effect("handle_callback", c, <<>>, "returned")

\* a text message dispatched into the chat's active flow
TextResult(calls) ==
    IF calls # <<>> /\ calls[Len(calls)].op = "raise" THEN "exception" ELSE "returned"

TextEffect(c, calls) == Effect("text", c, calls, TextResult(calls))

HandleText(c, text) == TextEffect(c, flow_text_calls(store, c, text))

\* POST /webhook with a callback_query that has an id and a chat id
WebhookCallback(c, data) ==
    \E ok \in Outcomes(handle_callback_query_calls(store, c, data, TRUE)) :
        Effect("_handle_callback_query", c,
               handle_callback_query_calls(store, c, data, ok), "ok_true")

\* POST /webhook with a text message
WebhookText(c, text, parsed) ==
    \E ok \in Outcomes(webhook_calls(store, c, text, parsed, TRUE)) :
        Effect("webhook", c, webhook_calls(store, c, text, parsed, ok),
               webhook_result(store, c, text, parsed, ok))

Init ==
    /\ store = [c \in Chats |-> None]
    /\ out = [via |-> "init", chat |-> "c1", pre |-> Summary(None),
              calls |-> <<>>, result |-> "returned"]
    /\ race = RaceIdle
    /\ client = None

CallbackStep == \E c \in Driven, data \in Tokens : HandleCallback(c, data)

MalformedCallbackStep == \E c \in Driven : HandleMalformedCallback(c)

TextStep == \E c \in Driven, text \in Texts : HandleText(c, text)

WebhookCallbackStep == \E c \in Driven, data \in Tokens : WebhookCallback(c, data)

WebhookTextStep == \E c \in Driven, text \in Texts \cup {X_food_cmd}, parsed \in ParseOutcomes :
                       WebhookText(c, text, parsed)

\* the flow core: the callback router and the flows' text handlers
Next == CallbackStep \/ MalformedCallbackStep \/ TextStep

Spec == Init /\ [][Next]_vars

\* every entry point of the sources that touches the store
WebhookNext == CallbackStep \/ WebhookCallbackStep \/ WebhookTextStep

WebhookSpec == Init /\ [][WebhookNext]_vars


\* two chats in conversation at once: both are driven, through the sleep flow
\* and the opening of the food flow
PairTokens ==
    {MenuCb.log_sleep, MenuCb.log_food, MenuCb.main_menu, FoodCb.mealtype_lunch, FoodCb.cancel,
     SleepCb.q_80, SleepCb.e_70, SleepCb.skip_start, SleepCb.skip_end, SleepCb.skip_rhr,
     SleepCb.skip_notes, SleepCb.confirm, SleepCb.edit, SleepCb.cancel}

PairNext ==
    \/ \E c \in Chats, data \in PairTokens : HandleCallback(c, data)
    \/ \E c \in Chats : HandleText(c, X_7_5)

PairSpec == Init /\ [][PairNext]_vars

\* a sleep log with bed and wake times typed in: the sleep flow's buttons,
\* and texts that are times, a number and a note
TimeTx ==
    [late |-> <<"2", "3", ":", "3", "0">>,
     early |-> <<"0", "7", ":", "0", "0">>,
     short |-> <<"7", ":", "5">>,
     signed |-> <<"+", "2", "3", ":", "3", "0">>,
     past_day |-> <<"2", "4", ":", "0", "0">>]

TimeTexts == {TimeTx[k] : k \in DOMAIN TimeTx} \cup {X_7_5}

TimeTokens ==
    {MenuCb.log_sleep, SleepCb.q_80, SleepCb.e_70, SleepCb.skip_start, SleepCb.skip_end,
     SleepCb.skip_rhr, SleepCb.skip_notes, SleepCb.confirm, SleepCb.edit}

TimeNext ==
    \/ \E c \in Driven, data \in TimeTokens : HandleCallback(c, data)
    \/ \E c \in Driven, text \in TimeTexts : HandleText(c, text)

TimeSpec == Init /\ [][TimeNext]_vars

----------------------------------------------------------------------------
(* Two updates of one chat handled at the same time.  handle_callback runs   *)
(* get_state, then the flow handler, then set_state or clear_state, with no  *)
(* lock around them.  The store holds references: get_state hands out the    *)
(* stored dict itself, the handlers change it in place and return it, and    *)
(* _base_state() makes a new dict.  race.heap holds the dicts in use,        *)
(* race.sid names the one the store refers to (0: none), and race.inserts    *)
(* the insert_record calls the two updates have made.                        *)

LiveIds(r) == {r.sid} \cup {r.w[k].ref : k \in Workers} \cup {r.w[k].wref : k \in Workers}

\* the lowest identifier no reference holds
FreeId(r) == CHOOSE i \in ObjIds \ LiveIds(r) : \A j \in ObjIds \ LiveIds(r) : i <= j

\* dicts nobody refers to any more are dropped
Sweep(r) == [r EXCEPT !.heap = [i \in ObjIds |-> IF i \in LiveIds(r) THEN r.heap[i] ELSE None]]

\* the set_state / clear_state call of a call sequence, if it makes one
WriteOf(calls) ==
    IF \E i \in 1..Len(calls) : calls[i].op = "set_state"
    THEN [op |-> "set",
          state |-> calls[CHOOSE i \in 1..Len(calls) : calls[i].op = "set_state"].state]
    ELSE IF \E i \in 1..Len(calls) : calls[i].op = "clear_state"
    THEN [op |-> "clear", state |-> None]
    ELSE [op |-> "none", state |-> None]

\* the next state is a new dict (start_*_flow, or _base_state() on edit)
\* and not the dict the handler was given
IsNewDict(calls, view, st) ==
    \/ \E i \in 1..Len(calls) :
           calls[i].op \in {"start_sleep_flow", "start_food_flow", "start_exercise_flow"}
    \/ (st \in {Sleep_base_state, Food_base_state, Exercise_base_state} /\ st # view)

\* two updates arrive for the chat while none is being handled
RaceStart(d1, d2) ==
    /\ \A k \in Workers : race.w[k].pc \in {"idle", "done"}
    /\ race' = [base |-> store[RaceChat], overlapped |-> FALSE,
                sid |-> IF store[RaceChat] = None THEN 0 ELSE 1,
                heap |-> [i \in ObjIds |-> IF i = 1 THEN store[RaceChat] ELSE None],
                inserts |-> <<>>,
                w |-> [k \in Workers |->
                          [IdleWorker EXCEPT !.pc = "ready",
                                             !.data = IF k = "w1" THEN d1 ELSE d2]]]
    /\ UNCHANGED <<store, out, client>>

\* WorkerGet under a per-chat lock: no get_state while the other update is
\* between its get_state and its write
WorkerGet_Locked(k) ==
    /\ race.w[k].pc = "ready"
    /\ \A j \in Workers \ {k} : race.w[j].pc \notin {"got", "handled"}
    /\ race' = IF Active(store[RaceChat])
               THEN [race EXCEPT !.w[k].pc = "got", !.w[k].ref = race.sid]
               ELSE [race EXCEPT !.w[k].pc = "got", !.w[k].ref = FreeId(race),
                                 !.heap[FreeId(race)] = EmptyDict]
    /\ UNCHANGED <<store, out, client>>

\* state = get_state(chat_id) or {}
WorkerGet(k) ==
    /\ race.w[k].pc = "ready"
    /\ race' = IF Active(store[RaceChat])
               THEN [race EXCEPT !.w[k].pc = "got", !.w[k].ref = race.sid,
                                 !.overlapped = @ \/ \E j \in Workers \ {k} :
                                                        race.w[j].pc \in {"got", "handled"}]
               ELSE [race EXCEPT !.w[k].pc = "got", !.w[k].ref = FreeId(race),
                                 !.heap[FreeId(race)] = EmptyDict,
                                 !.overlapped = @ \/ \E j \in Workers \ {k} :
                                                        race.w[j].pc \in {"got", "handled"}]
    /\ UNCHANGED <<store, out, client>>

\* the handler has returned write wr: a dict changed in place is changed for
\* everyone who refers to it, the store included
Handled(k, view, wr, new, ins) ==
    /\ race' =
         IF wr.op = "set" /\ ~new
         THEN [race EXCEPT !.w[k].pc = "handled", !.w[k].wop = "set",
                           !.w[k].wref = race.w[k].ref, !.heap[race.w[k].ref] = wr.state,
                           !.inserts = @ \o ins]
         ELSE IF wr.op = "set"
         THEN [race EXCEPT !.w[k].pc = "handled", !.w[k].wop = "set",
                           !.w[k].wref = FreeId(race), !.heap[FreeId(race)] = wr.state,
                           !.inserts = @ \o ins]
         ELSE [race EXCEPT !.w[k].pc = "handled", !.w[k].wop = wr.op, !.inserts = @ \o ins]
    /\ store' = IF wr.op = "set" /\ ~new /\ race.sid = race.w[k].ref
                THEN [store EXCEPT ![RaceChat] = wr.state]
                ELSE store
    /\ UNCHANGED <<out, client>>

\* the insert_record calls of a call sequence
InsertCalls(calls) == SelectSeq(calls, LAMBDA x : x.op = "insert_record")

HandledCalls(k, view, calls) ==
    Handled(k, view, WriteOf(calls), IsNewDict(calls, view, WriteOf(calls).state),
            InsertCalls(calls))

\* the branch tests and the flow handler, on the dict the worker holds
WorkerHandle(k) ==
    /\ race.w[k].pc = "got"
    /\ HandledCalls(k, race.heap[race.w[k].ref],
                    handle_callback_calls([store EXCEPT ![RaceChat] = race.heap[race.w[k].ref]],
                                          RaceChat, race.w[k].data, TRUE))

\* set_state(chat_id, new_state) or clear_state(chat_id); then the reply
WorkerWrite(k) ==
    /\ race.w[k].pc = "handled"
    /\ store' = CASE race.w[k].wop = "set" ->
                        [store EXCEPT ![RaceChat] = race.heap[race.w[k].wref]]
                  [] race.w[k].wop = "clear" -> [store EXCEPT ![RaceChat] = None]
                  [] OTHER -> store
    /\ race' = Sweep([race EXCEPT
                         !.sid = CASE race.w[k].wop = "set" -> race.w[k].wref
                                   [] race.w[k].wop = "clear" -> 0
                                   [] OTHER -> @,
                         !.w[k] = [IdleWorker EXCEPT !.pc = "done", !.data = race.w[k].data]])
    /\ UNCHANGED <<out, client>>

RaceNext ==
    \/ \E d1 \in RaceTokens, d2 \in RaceTokens : RaceStart(d1, d2)
    \/ \E k \in Workers : WorkerGet(k)
    \/ \E k \in Workers : WorkerHandle(k)
    \/ \E k \in Workers : WorkerWrite(k)

RaceSpec == Init /\ [][RaceNext]_vars

\* a chat is taken to the preview of the sleep flow, one update at a time,
\* and then two taps on the preview's buttons arrive together
Quiet == \A k \in Workers : race.w[k].pc \in {"idle", "done"}

ToPreviewTokens ==
    {MenuCb.log_sleep, SleepCb.q_80, SleepCb.e_70, SleepCb.skip_start, SleepCb.skip_end,
     SleepCb.skip_rhr, SleepCb.skip_notes}

PreviewTaps == {SleepCb.confirm, SleepCb.cancel}

ConfirmRaceNext ==
    \/ \E data \in ToPreviewTokens : Quiet /\ HandleCallback(RaceChat, data)
    \/ Quiet /\ HandleText(RaceChat, X_7_5)
    \/ \E d1 \in PreviewTaps, d2 \in PreviewTaps : RaceStart(d1, d2)
    \/ \E k \in Workers : WorkerGet(k)
    \/ \E k \in Workers : WorkerHandle(k)
    \/ \E k \in Workers : WorkerWrite(k)

ConfirmRaceSpec == Init /\ [][ConfirmRaceNext]_vars

----------------------------------------------------------------------------
(* Text normalisation through the LLM: app/gpt_fallback.py *)

\* the client object OpenAI(api_key=...) returns
OpenAIClient == [openai |-> TRUE]

CGetenv == [op |-> "os.getenv"]

CLogError(what) == [op |-> "logging.error", what |-> what]

COpenAI == [op |-> "OpenAI"]

CCreate(text, context) == [op |-> "chat.completions.create", text |-> text, context |-> context]

CLoads == [op |-> "json.loads"]

\* _get_client(): the cached client, or a new one when OPENAI_API_KEY is set
\* and not empty; RuntimeError otherwise.  cl is _client, key the variable.
get_client(cl, key) ==
    IF cl # None THEN [raised |-> FALSE, client |-> cl, calls |-> <<>>]
    ELSE IF ~Truthy(key)
    THEN [raised |-> TRUE, client |-> None, calls |-> <<CGetenv, CLogError("no key")>>]
    ELSE [raised |-> FALSE, client |-> OpenAIClient, calls |-> <<CGetenv, COpenAI>>]

\* json.loads on the documents a completion is taken to carry: null, a
\* number, a string, a list of numbers, and an object with at most one
\* member whose value is a number or null; blanks around tokens are skipped
JsonScalar(s) ==
    IF s = <<"n", "u", "l", "l">> THEN [ok |-> TRUE, v |-> NULL]
    ELSE IF s # <<>> /\ AllDigits(s) THEN [ok |-> TRUE, v |-> PInt(NatOf(s))]
    ELSE [ok |-> FALSE, v |-> NULL]

JsonIsString(s) ==
    /\ Len(s) >= 2 /\ s[1] = "\"" /\ s[Len(s)] = "\""
    /\ \A i \in 2..(Len(s) - 1) : s[i] \notin {"\"", "\\"}

Inner(s) == Strip(SubSeq(s, 2, Len(s) - 1))

Wrapped(s, open, close) == Len(s) >= 2 /\ s[1] = open /\ s[Len(s)] = close

\* the member key : value, split at its first colon p
JsonMember(s, p) ==
    IF p = 0 \/ ~JsonIsString(Strip(SubSeq(s, 1, p - 1)))
          \/ ~JsonScalar(Strip(SubSeq(s, p + 1, Len(s)))).ok
    THEN [ok |-> FALSE, v |-> NULL]
    ELSE [ok |-> TRUE,
          v |-> [t |-> "dict",
                 v |-> <<[key |-> Inner(Strip(SubSeq(s, 1, p - 1))),
                          value |-> JsonScalar(Strip(SubSeq(s, p + 1, Len(s)))).v]>>]]

FirstColon(s) ==
    IF \E i \in 1..Len(s) : s[i] = ":"
    THEN CHOOSE i \in 1..Len(s) : s[i] = ":" /\ \A j \in 1..(i - 1) : s[j] # ":"
    ELSE 0

JsonDocument(s) ==
    IF JsonScalar(s).ok THEN JsonScalar(s)
    ELSE IF JsonIsString(s) THEN [ok |-> TRUE, v |-> PStr(SubSeq(s, 2, Len(s) - 1))]
    ELSE IF Wrapped(s, "[", "]")
    THEN IF Inner(s) = <<>> \/ JsonScalar(Inner(s)).ok
         THEN [ok |-> TRUE, v |-> [t |-> "list", v |-> Inner(s)]]
         ELSE [ok |-> FALSE, v |-> NULL]
    ELSE IF Wrapped(s, "{", "}")
    THEN IF Inner(s) = <<>> THEN [ok |-> TRUE, v |-> [t |-> "dict", v |-> <<>>]]
         ELSE JsonMember(Inner(s), FirstColon(Inner(s)))
    ELSE [ok |-> FALSE, v |-> NULL]

\* json.loads(content): ok is FALSE where it raises JSONDecodeError
json_loads(content) == JsonDocument(Strip(content))

\* what normalize_input hands back: the value returned (NULL is None), or
\* an exception let through; _client afterwards; the calls made
Returned(ret, cl, calls) == [ret |-> ret, raised |-> FALSE, client |-> cl, calls |-> calls]

\* SKIP_WORDS short of "pass"
SKIP_WORDS_WithoutPass == {<<"s", "k", "i", "p">>, <<"n", "o">>, <<"n", "o", "n", "e">>}

\* the words normalize_input takes as "nothing to extract"
SKIP_WORDS ==
    {<<"s", "k", "i", "p">>, <<"n", "o">>, <<"n", "o", "n", "e">>, <<"p", "a", "s", "s">>}

\* parsed = json.loads(content); a dict is returned, anything else is None
ParsedOrNone(p, cl, calls) ==
    IF ~p.ok THEN Returned(NULL, cl, calls \o <<CLoads, CLogError("GPT FALLBACK ERROR")>>)
    ELSE IF p.v.t # "dict" THEN Returned(NULL, cl, calls \o <<CLoads>>)
    ELSE Returned(p.v, cl, calls \o <<CLoads>>)

\* Completion without its except clause: a failing call is let through
Completion_Unguarded(llm, cl, calls) ==
    IF llm.kind = "raise" THEN [ret |-> NULL, raised |-> TRUE, client |-> cl, calls |-> calls]
    ELSE IF ~Truthy(llm.content) THEN Returned(NULL, cl, calls)
    ELSE ParsedOrNone(json_loads(llm.content.v), cl, calls)

\* the second try block: llm is what client.chat.completions.create does,
\* raise or answer with message content (None, or a string)
Completion(llm, cl, calls) ==
    IF llm.kind = "raise" THEN Returned(NULL, cl, calls \o <<CLogError("GPT FALLBACK ERROR")>>)
    ELSE IF ~Truthy(llm.content) THEN Returned(NULL, cl, calls)
    ELSE ParsedOrNone(json_loads(llm.content.v), cl, calls)

\* the first try block: RuntimeError of _get_client() becomes None
WithClient(g, text, context, llm) ==
    IF g.raised THEN Returned(NULL, g.client, g.calls)
    ELSE Completion(llm, g.client, g.calls \o <<CCreate(text, context)>>)

\* normalize_input(text, context) when _client is cl, OPENAI_API_KEY is key
\* and the completion call does llm
normalize_input(cl, text, context, key, llm) ==
    IF Strip(text) = <<>> THEN Returned(NULL, cl, <<>>)
    ELSE IF Lower(Strip(text)) \in SKIP_WORDS THEN Returned(NULL, cl, <<>>)
    ELSE WithClient(get_client(cl, key), text, context, llm)

\* inputs of normalize_input
NormTx ==
    [empty |-> <<>>, blank |-> <<" ", "\t">>, skip |-> <<" ", "S", "k", "i", "p">>,
     no |-> <<"N", "O">>, none |-> <<"n", "o", "n", "e", " ">>, pass |-> <<"P", "a", "s", "s">>,
     nope |-> <<"n", "o", "p", "e">>, hours |-> <<"7", " ", "h">>, number |-> <<"4", "5">>]

NormTexts == {NormTx[k] : k \in DOMAIN NormTx}

NormContexts == {"number", "duration", "time", "macros", "exercise_stats"}

\* OPENAI_API_KEY: unset, empty, set
ApiKeys == {NULL, PStr(<<>>), PStr(<<"s", "k">>)}

JsonTx ==
    [object |-> <<"{", "\"", "n", "\"", ":", " ", "7", "}">>,
     null_member |-> <<" ", "{", "\"", "n", "\"", ":", "n", "u", "l", "l", "}">>,
     empty_object |-> <<"{", "}">>,
     list |-> <<"[", "7", "]">>, number |-> <<"7">>, null |-> <<"n", "u", "l", "l">>,
     string |-> <<"\"", "7", "\"">>, cut |-> <<"{", "\"", "n", "\"", ":">>,
     prose |-> <<"s", "e", "v", "e", "n">>, blank |-> <<" ">>]

LlmOutcomes ==
    {[kind |-> "raise", content |-> NULL], [kind |-> "content", content |-> NULL],
     [kind |-> "content", content |-> PStr(<<>>)]}
    \cup {[kind |-> "content", content |-> PStr(JsonTx[k])] : k \in DOMAIN JsonTx}

\* one call of normalize_input: _client is updated and out keeps the calls
\* made and whether a dict, None or an exception came back
NormResult(r) == IF r.raised THEN "exception" ELSE IF r.ret = NULL THEN "None" ELSE "dict"

NormEffect(r) ==
    /\ client' = r.client
    /\ out' = [via |-> "normalize_input", chat |-> "c1", pre |-> Summary(None),
               calls |-> r.calls, result |-> NormResult(r)]
    /\ UNCHANGED <<store, race>>

NormalizeInput(text, context, key, llm) ==
    NormEffect(normalize_input(client, text, context, key, llm))

\* a process restart: the module is imported afresh and _client is None
Restart ==
    /\ client # None
    /\ client' = None
    /\ UNCHANGED <<store, out, race>>

NormNext ==
    \/ \E text \in NormTexts, context \in NormContexts, key \in ApiKeys, llm \in LlmOutcomes :
           NormalizeInput(text, context, key, llm)
    \/ Restart

NormSpec == Init /\ [][NormNext]_vars

----------------------------------------------------------------------------
(* The earlier endpoint: app/main.py *)

\* telegram_webhook() for a message with a chat id: parsed is "none" when
\* call_gpt_parser returns None, else the container of its answer; the three
\* container handlers insert into the table of their name
telegram_webhook_calls(c, user_text, parsed, ok) ==
    IF user_text = <<>> THEN <<CSend(Txt("legacy.text_only"), <<>>)>>
    ELSE IF parsed = "none"
    THEN <<CHandler("call_gpt_parser"), CSend(Txt("legacy.not_processed"), <<>>)>>
    ELSE IF parsed \in {"food", "sleep", "exercise"}
    THEN <<CHandler("call_gpt_parser"), CInsert(parsed, RecordOf(EmptyDict, c), ok),
           CSend(IF ok THEN Txt("legacy.message_to_user") ELSE FailureText("legacy.save_failed"),
                 <<>>)>>
    ELSE IF parsed = "ignore"
    THEN <<CHandler("call_gpt_parser"), CSend(Txt("legacy.message_to_user"), <<>>)>>
    ELSE <<CHandler("call_gpt_parser"), CSend(Txt("legacy.not_classified"), <<>>)>>
----------------------------------------------------------------------------
(* Vocabulary of the properties *)

Flows == {"food", "sleep", "exercise"}

\* the insert_record calls of a call sequence, in order
InsertsOf(calls) == SelectSeq(calls, LAMBDA x : x.op = "insert_record")

HasCall(calls, op) == \E i \in 1..Len(calls) : calls[i].op = op

\* a send_message call of the sequence carries the reply text with this id
SendsText(calls, id) ==
    \E i \in 1..Len(calls) : calls[i].op = "send_message" /\ calls[i].text.id = id

\* what the store holds for chat c once the calls are made
PostState(c, calls) == StoreAfter(store, c, calls)[c]

AtPreview(st, flow) == Active(st) /\ FlowOf(st) = flow /\ StepOf(st) = "preview"

\* the keyboard each flow's _build_preview puts under its preview
PreviewKeyboard(flow) ==
    CASE flow = "food" -> FoodPreviewKb
      [] flow = "sleep" -> SleepPreviewKb
      [] flow = "exercise" -> ExercisePreviewKb

\* its first button is Confirm
ConfirmButton(flow) == PreviewKeyboard(flow)[1]

CancelToken(flow) ==
    CASE flow = "food" -> FoodCb.cancel
      [] flow = "sleep" -> SleepCb.cancel
      [] flow = "exercise" -> ExCb.cancel

EntryToken(flow) ==
    CASE flow = "food" -> MenuCb.log_food
      [] flow = "sleep" -> MenuCb.log_sleep
      [] flow = "exercise" -> MenuCb.log_exercise

StartReply(flow) ==
    CASE flow = "food" -> start_food_flow
      [] flow = "sleep" -> start_sleep_flow
      [] flow = "exercise" -> start_exercise_flow

CallbackReply(flow, data, state) ==
    CASE flow = "food" -> handle_food_callback(data, state)
      [] flow = "sleep" -> handle_sleep_callback(data, state)
      [] flow = "exercise" -> handle_exercise_callback(data, state)

\* every token a router or a handler compares with to start a write
ConfirmTokens == {FoodCb.confirm, SleepCb.confirm, ExCb.confirm, T_exercise_confirm}

SuccessIds == {"food.logged", "sleep.logged", "exercise.logged", "food.meal_logged"}

\* the steps each flow's handlers test for
StepsOf(flow) ==
    CASE flow = "food" ->
            {"choose_meal_type", "await_description", "ask_macros_choice", "await_calories",
             "await_protein", "await_carbs", "await_fat", "await_fiber",
             "ask_notes_choice", "await_notes", "preview"}
      [] flow = "sleep" ->
            {"ask_quality", "ask_duration", "ask_energy", "ask_sleep_start",
             "ask_sleep_end", "ask_resting_hr", "ask_notes", "preview"}
      [] flow = "exercise" ->
            {"ask_type", "ask_duration", "ask_distance", "ask_calories", "ask_avg_hr",
             "ask_max_hr", "ask_intensity", "ask_perceived", "ask_effort", "ask_tags",
             "ask_notes", "preview"}

RequiredFields(flow) ==
    CASE flow = "food" -> {"meal_name"}
      [] flow = "sleep" -> {"sleep_score", "duration_hr"}
      [] flow = "exercise" -> {"workout_name"}

\* the steps that ask for a field a log may leave empty
OptionalSteps(flow) ==
    CASE flow = "food" -> {"choose_meal_type", "ask_macros_choice", "await_fiber",
                           "ask_notes_choice"}
      [] flow = "sleep" -> {"ask_energy", "ask_sleep_start", "ask_sleep_end",
                            "ask_resting_hr", "ask_notes"}
      [] flow = "exercise" -> {"ask_distance", "ask_calories", "ask_avg_hr", "ask_max_hr",
                               "ask_intensity", "ask_perceived", "ask_effort", "ask_tags",
                               "ask_notes"}

\* the buttons that decline a field
SkipTokens ==
    {FoodCb.macros_no, FoodCb.notes_no, SleepCb.skip_start, SleepCb.skip_end,
     SleepCb.skip_rhr, SleepCb.skip_notes, ExCb.skip_perc, ExCb.skip_effort,
     ExCb.skip_tags, ExCb.skip_notes, ExCb.skip_dist, ExCb.skip_cals,
     ExCb.skip_avg_hr, ExCb.skip_max_hr}

\* a reply that keeps the flow going at another step
Advances(r, st) == ~r.raised /\ Active(r.state) /\ StepOf(r.state) # StepOf(st)

\* some skip button, or the text "skip", moves state st on
SkipAdvances(st) ==
    \/ \E t \in SkipTokens : Advances(CallbackReply(FlowOf(st), t, st), st)
    \/ Advances(TextReply(FlowOf(st), X_skip, st), st)


\* what chat c holds after each way of starting `flow` when the store is s:
\* the entry button through handle_callback and, for food, the start buttons
\* through _handle_callback_query and the "/food" command through webhook()
StartOutcomes(s, c, flow) ==
    {StoreAfter(s, c, handle_callback_calls(s, c, EntryToken(flow), TRUE))[c]}
    \cup (IF flow # "food" THEN {}
          ELSE {StoreAfter(s, c, handle_callback_query_calls(s, c, t, TRUE))[c] :
                    t \in {MenuCb.start_food, T_food_start}}
               \cup {StoreAfter(s, c, webhook_calls(s, c, X_food_cmd, p, TRUE))[c] :
                         p \in ParseOutcomes})

\* st is a state of a flow other than `flow`
InOtherFlow(st, flow) == Active(st) /\ FlowOf(st) \in Flows \ {flow}

\* the states flow A can be interrupted in: its opening state, and whatever
\* the chat holds now
InterruptedStates(c) == {StartReply(a).state : a \in Flows} \cup {store[c]}

\* the texts webhook() takes as the food start command, as typed
StartCommandTexts ==
    StartFoodCommands \cup {<<" ", "/", "F", "o", "o", "d">>, <<"L", "o", "g", " ", "M", "E", "A", "L", "\n">>}

\* the calls each start token leads to: the entry button of any flow through
\* handle_callback, a food start command through webhook()
StartCalls(c, flow) ==
    {handle_callback_calls(store, c, EntryToken(flow), TRUE)}
    \cup (IF flow # "food" THEN {}
          ELSE {webhook_calls(store, c, t, p, TRUE) :
                    t \in StartCommandTexts, p \in ParseOutcomes})

\* st is a fresh state of `flow`: no field of data filled, and at the step
\* where the first button of the flow's opening keyboard is an answer
IsInitialState(st, flow) ==
    /\ Active(st) /\ FlowOf(st) = flow
    /\ StepOf(st) \in StepsOf(flow)
    /\ DOMAIN DataOf(st) # {}
    /\ \A k \in DOMAIN DataOf(st) : DataOf(st)[k] = NULL
    /\ Advances(CallbackReply(flow, StartReply(flow).kb[1], st), st)

\* hour and minute of a text _valid_time accepts: int() of the two parts
ClockOf(text) ==
    LET p == CHOOSE i \in 1..Len(text) : text[i] = ":"
    IN  [h |-> PyInt(SubSeq(text, 1, p - 1)).v, m |-> PyInt(SubSeq(text, p + 1, Len(text))).v]

LaterInDay(a, b) == a.h > b.h \/ (a.h = b.h /\ a.m > b.m)

\* a text the sleep flow took as a time of day
IsValidTime(v) == v.t = "str" /\ Sleep_valid_time(v.v)

IsTimestamp(v) == v.t = "datetime"

\* the store after update d is handled alone, start to end
HandledAlone(s, d) == StoreAfter(s, RaceChat, handle_callback_calls(s, RaceChat, d, TRUE))

\* what the chat holds after the two updates in flight are handled one after
\* the other, in either order, from the state they arrived at
SequentialOutcomes ==
    LET s0 == [store EXCEPT ![RaceChat] = race.base]
        d1 == race.w["w1"].data
        d2 == race.w["w2"].data
    IN  {HandledAlone(HandledAlone(s0, d1), d2)[RaceChat],
         HandledAlone(HandledAlone(s0, d2), d1)[RaceChat]}

BothDone == \A k \in Workers : race.w[k].pc = "done"

\* the positions of the calls to op in a call sequence
CallsTo(calls, op) == {i \in 1..Len(calls) : calls[i].op = op}

\* one insert, before every clear_state and every send_message, and one
\* message, which tells the insert's outcome
InsertThenClearAndOneReply(calls, ok) ==
    /\ Cardinality(CallsTo(calls, "insert_record")) = 1
    /\ Cardinality(CallsTo(calls, "send_message")) = 1
    /\ CallsTo(calls, "clear_state") # {}
    /\ \A i \in CallsTo(calls, "insert_record") :
           /\ calls[i].ok = ok
           /\ \A j \in CallsTo(calls, "clear_state") \cup CallsTo(calls, "send_message") : i < j
    /\ \A j \in CallsTo(calls, "send_message") :
           IF ok THEN calls[j].text.id \in SuccessIds
           ELSE calls[j].text.lines = <<Line("error", PStr(StorageError))>>

\* the steps of each flow in the order its prompts follow one another
StepSequence(flow) ==
    CASE flow = "food" ->
            <<"choose_meal_type", "await_description", "ask_macros_choice", "await_calories",
              "await_protein", "await_carbs", "await_fat", "await_fiber",
              "ask_notes_choice", "await_notes", "preview">>
      [] flow = "sleep" ->
            <<"ask_quality", "ask_duration", "ask_energy", "ask_sleep_start",
              "ask_sleep_end", "ask_resting_hr", "ask_notes", "preview">>
      [] flow = "exercise" ->
            <<"ask_type", "ask_duration", "ask_distance", "ask_calories", "ask_avg_hr",
              "ask_max_hr", "ask_intensity", "ask_perceived", "ask_effort", "ask_tags",
              "ask_notes", "preview">>

StepPosition(st) ==
    CHOOSE i \in 1..Len(StepSequence(FlowOf(st))) : StepSequence(FlowOf(st))[i] = StepOf(st)

InSession(st) == Active(st) /\ FlowOf(st) \in Flows /\ StepOf(st) \in StepsOf(FlowOf(st))

\* post is a state of the same flow as pre, at an earlier step
MovedBack(pre, post) ==
    /\ InSession(pre) /\ InSession(post)
    /\ FlowOf(post) = FlowOf(pre)
    /\ StepPosition(post) < StepPosition(pre)

EditToken(flow) ==
    CASE flow = "food" -> FoodCb.edit
      [] flow = "sleep" -> SleepCb.edit
      [] flow = "exercise" -> ExCb.edit

\* the callback tokens each step's own branch of the flow's handler takes
AcceptsToken(flow, step, data) ==
    CASE flow = "food" ->
            \/ step = "choose_meal_type" /\ StartsWith(data, FoodCb.mealtype_prefix)
            \/ step = "ask_macros_choice" /\ data \in {FoodCb.macros_yes, FoodCb.macros_no}
            \/ step = "ask_notes_choice" /\ data \in {FoodCb.notes_yes, FoodCb.notes_no}
            \/ step = "preview" /\ data \in {FoodCb.confirm, FoodCb.edit}
      [] flow = "sleep" ->
            \/ step = "ask_quality" /\ StartsWith(data, SleepCb.q_prefix)
            \/ step = "ask_energy" /\ StartsWith(data, SleepCb.e_prefix)
            \/ step = "ask_sleep_start" /\ data = SleepCb.skip_start
            \/ step = "ask_sleep_end" /\ data = SleepCb.skip_end
            \/ step = "ask_resting_hr" /\ data = SleepCb.skip_rhr
            \/ step = "ask_notes" /\ data = SleepCb.skip_notes
            \/ step = "preview" /\ data \in {SleepCb.confirm, SleepCb.edit}
      [] flow = "exercise" ->
            \/ step = "ask_type" /\ StartsWith(data, ExCb.type_prefix)
            \/ step = "ask_distance" /\ data = ExCb.skip_dist
            \/ step = "ask_calories" /\ data = ExCb.skip_cals
            \/ step = "ask_avg_hr" /\ data = ExCb.skip_avg_hr
            \/ step = "ask_max_hr" /\ data = ExCb.skip_max_hr
            \/ step = "ask_intensity" /\ StartsWith(data, ExCb.int_prefix)
            \/ step = "ask_perceived"
                   /\ (StartsWith(data, ExCb.perc_prefix) \/ data = ExCb.skip_perc)
            \/ step = "ask_effort" /\ data = ExCb.skip_effort
            \/ step = "ask_tags" /\ data = ExCb.skip_tags
            \/ step = "ask_notes" /\ data = ExCb.skip_notes
            \/ step = "preview" /\ data \in {ExCb.confirm, ExCb.edit}

\* a token that is neither an answer to the step st is at nor its flow's cancel
IsForeignToken(st, data) ==
    /\ ~AcceptsToken(FlowOf(st), StepOf(st), data)
    /\ data # CancelToken(FlowOf(st))

AtStep(st, flow, step) == Active(st) /\ FlowOf(st) = flow /\ StepOf(st) = step

\* the steps whose prompt offers buttons only
ButtonSteps(flow) ==
    CASE flow = "food" -> {"choose_meal_type", "ask_macros_choice", "ask_notes_choice", "preview"}
      [] flow = "sleep" -> {"ask_quality", "ask_energy", "preview"}
      [] flow = "exercise" -> {"ask_type", "ask_intensity", "ask_perceived", "preview"}

\* the steps that expect a required number, with the field each one fills
RequiredNumberField(flow) ==
    CASE flow = "food" -> [await_calories |-> "calories", await_protein |-> "protein_g",
                           await_carbs |-> "carbs_g", await_fat |-> "fat_g"]
      [] flow = "sleep" -> [ask_duration |-> "duration_hr"]
      [] flow = "exercise" -> [ask_duration |-> "duration_min"]

AtRequiredNumberStep(st) ==
    InSession(st) /\ StepOf(st) \in DOMAIN RequiredNumberField(FlowOf(st))

\* texts typed where a number is expected
NumberTx ==
    [point |-> <<"7", ".", "5">>, comma |-> <<" ", "7", ",", "5">>, word |-> <<"a", "b", "c">>,
     zero |-> <<"0">>, big |-> <<"2", "5">>, nan |-> <<"n", "a", "n">>, skip |-> <<"S", "k", "i", "p", " ">>]

NumberTexts == {NumberTx[k] : k \in DOMAIN NumberTx}

\* reply r repeats the prompt of st: same step, same data
IsReprompt(r, st) == ~r.raised /\ r.state = st

\* reply r put val, or its integer part, into field key of st and moved one
\* step along the flow's sequence, every other field as it was
StoredAndAdvanced(r, st, key, val) ==
    /\ ~r.raised /\ InSession(r.state) /\ FlowOf(r.state) = FlowOf(st)
    /\ StepPosition(r.state) = StepPosition(st) + 1
    /\ \E v \in {val, PInt(IntOfFloat(val))} : DataOf(r.state) = Put(DataOf(st), key, v)

\* _parse_number is the same function in the three flows
NumberStepContract(st, val, r) ==
    IF val = NULL THEN IsReprompt(r, st)
    ELSE StoredAndAdvanced(r, st, RequiredNumberField(FlowOf(st))[StepOf(st)], val)

\* the typed steps whose field a log may leave empty, with that field
OptionalTextField(flow) ==
    CASE flow = "food" -> [await_fiber |-> "fiber_g", await_notes |-> "notes"]
      [] flow = "sleep" -> [ask_sleep_start |-> "sleep_start", ask_sleep_end |-> "sleep_end",
                            ask_resting_hr |-> "resting_hr", ask_notes |-> "notes"]
      [] flow = "exercise" -> [ask_distance |-> "distance_km", ask_calories |-> "calories_burned",
                               ask_avg_hr |-> "avg_hr", ask_max_hr |-> "max_hr",
                               ask_effort |-> "effort_description", ask_tags |-> "tags",
                               ask_notes |-> "notes"]

\* the typed steps whose field a log must have
RequiredTextSteps(flow) ==
    DOMAIN RequiredNumberField(flow) \cup (IF flow = "food" THEN {"await_description"} ELSE {})

\* the word skip as users type it
SkipTexts == {X_skip, NumberTx.skip}

\* reply r moved st one step on with field key null
SkippedField(r, st, key) ==
    /\ ~r.raised /\ InSession(r.state) /\ FlowOf(r.state) = FlowOf(st)
    /\ StepPosition(r.state) = StepPosition(st) + 1
    /\ Get(DataOf(r.state), key) = NULL

SkipTextContract(st, r) ==
    /\ StepOf(st) \in DOMAIN OptionalTextField(FlowOf(st)) =>
           SkippedField(r, st, OptionalTextField(FlowOf(st))[StepOf(st)])
    /\ StepOf(st) \in RequiredTextSteps(FlowOf(st)) => IsReprompt(r, st)

\* the buttons labelled Skip of the sleep and exercise flows
SkipButtonTokens ==
    {SleepCb.skip_start, SleepCb.skip_end, SleepCb.skip_rhr, SleepCb.skip_notes,
     ExCb.skip_dist, ExCb.skip_cals, ExCb.skip_avg_hr, ExCb.skip_max_hr,
     ExCb.skip_perc, ExCb.skip_effort, ExCb.skip_tags, ExCb.skip_notes}

\* post is st moved one step along its flow's sequence, data as it was
OnlyAdvanced(post, st) ==
    /\ InSession(post) /\ FlowOf(post) = FlowOf(st)
    /\ StepPosition(post) = StepPosition(st) + 1
    /\ DataOf(post) = DataOf(st)

MacroFields == {"calories", "protein_g", "carbs_g", "fat_g", "fiber_g"}

\* the food state st after "No, skip macros" and then "Skip" for the notes
PreviewWithoutMacros(st) ==
    handle_food_callback(FoodCb.notes_no, handle_food_callback(FoodCb.macros_no, st).state).state

\* st is a live state of `flow` at the first step of its sequence
AtFirstStep(st, flow) == AtStep(st, flow, StepSequence(flow)[1])

PreviewOf(flow, data) ==
    CASE flow = "food" -> Food_build_preview(data)
      [] flow = "sleep" -> Sleep_build_preview(data)
      [] flow = "exercise" -> Exercise_build_preview(data)

\* the label of the preview line that reports each field ("none": no line does)
PreviewLabel(flow) ==
    CASE flow = "food" ->
            [meal_type |-> "Type", meal_name |-> "Name", calories |-> "Macros",
             protein_g |-> "Macros", carbs_g |-> "Macros", fat_g |-> "Macros",
             fiber_g |-> "Macros", notes |-> "Notes"]
      [] flow = "sleep" ->
            [sleep_score |-> "Quality", duration_hr |-> "Duration",
             energy_score |-> "Morning energy", sleep_start |-> "Window",
             sleep_end |-> "Window", resting_hr |-> "Resting HR", notes |-> "Notes"]
      [] flow = "exercise" ->
            [workout_name |-> "Type", training_type |-> "none", duration_min |-> "Duration",
             distance_km |-> "Dist", calories_burned |-> "Cals", avg_hr |-> "none",
             max_hr |-> "none", training_intensity |-> "Intensity",
             perceived_intensity |-> "Perceived", effort_description |-> "Effort",
             tags |-> "Tags", notes |-> "Notes"]

\* the values a preview line prints
ValuesOf(line) ==
    IF "parts" \in DOMAIN line THEN {line.parts[j].v : j \in 1..Len(line.parts)}
    ELSE IF "from" \in DOMAIN line THEN {line.from, line.to}
    ELSE {line.v}

HasLine(preview, label) == \E i \in 1..Len(preview.lines) : preview.lines[i].label = label

\* the preview has a line for field k that prints x
Lists(preview, label, x) ==
    \E i \in 1..Len(preview.lines) :
        preview.lines[i].label = label /\ x \in ValuesOf(preview.lines[i])

\* every field of data is on the preview, a null one as the placeholder
ListsEveryField(flow, data) ==
    \A k \in DOMAIN data :
        Lists(PreviewOf(flow, data), PreviewLabel(flow)[k],
              IF data[k] = NULL THEN DASH ELSE data[k])

\* kb is the three buttons Confirm, Edit, Cancel of `flow`, in that order
IsConfirmEditCancel(kb, flow) ==
    /\ Len(kb) = 3
    /\ kb[1] \in ConfirmTokens
    /\ kb[2] = EditToken(flow)
    /\ kb[3] = CancelToken(flow)

\* the texts that carry nothing to extract: empty, blank, and the words
\* skip, no, none, pass in any case with blanks around
NothingTexts == {NormTx.empty, NormTx.blank, NormTx.skip, NormTx.no, NormTx.none, NormTx.pass}

\* r is None handed back without touching the client or the LLM
NoneWithoutCalls(r, cl) == ~r.raised /\ r.ret = NULL /\ r.calls = <<>> /\ r.client = cl

\* completions by what they carry
ObjectDocs == {JsonTx.object, JsonTx.null_member, JsonTx.empty_object}

NonObjectDocs == {JsonTx.list, JsonTx.number, JsonTx.null, JsonTx.string}

MalformedDocs == {JsonTx.cut, JsonTx.prose, JsonTx.blank}

\* the object each well-formed object document stands for
ObjectOf(doc) ==
    [t |-> "dict",
     v |-> IF doc = JsonTx.object THEN <<[key |-> <<"n">>, value |-> PInt(7)]>>
           ELSE IF doc = JsonTx.null_member THEN <<[key |-> <<"n">>, value |-> NULL]>>
           ELSE <<>>]

\* the completion call fails, or answers with nothing usable
NoObjectFrom(llm) ==
    \/ llm.kind = "raise"
    \/ llm.content \in {NULL, PStr(<<>>)}
    \/ \E d \in NonObjectDocs \cup MalformedDocs : llm.content = PStr(d)

\* what normalize_input owes for a text that is not in NothingTexts
FallbackContract(r, cl, key, llm) ==
    /\ ~r.raised
    /\ (cl = None /\ key \in {NULL, PStr(<<>>)}) => r.ret = NULL
    /\ NoObjectFrom(llm) => r.ret = NULL
    /\ \A d \in ObjectDocs :
           (llm.content = PStr(d) /\ ~(cl = None /\ key \in {NULL, PStr(<<>>)})) =>
               r.ret = ObjectOf(d)

\* what the adapter answers for "7 h" when a client is at hand and the
\* completion is the object {"n": 7}
AdapterAnswer ==
    normalize_input(OpenAIClient, NormTx.hours, "number", NULL,
                    [kind |-> "content", content |-> PStr(JsonTx.object)])

\* the number in the adapter's answer, as a float
AdapterNumber == PFloat("fin", 1000 * AdapterAnswer.ret.v[1].value.v)

OtherChat(c) == CHOOSE d \in Chats : d # c

\* states another chat may hold meanwhile
OtherStates == {None, Sleep_base_state, Food_base_state}

\* the part of an update's calls the user sees or the store keeps
IsReplyCall(x) ==
    x.op \in {"send_message", "set_state", "clear_state", "answer_callback_query"}

ReplyPart(calls) == SelectSeq(calls, IsReplyCall)

\* a value read off the wall clock
IsClockValue(v) == v.t \in {"date", "datetime"}

ClockFreeState(st) ==
    Active(st) => \A k \in DOMAIN DataOf(st) : ~IsClockValue(DataOf(st)[k])

ClockFreeText(text) ==
    \A i \in 1..Len(text.lines) : \A v \in ValuesOf(text.lines[i]) : ~IsClockValue(v)

\* no reply and no stored state of the calls carries a clock value
ClockFreeReplies(calls) ==
    \A i \in 1..Len(calls) :
        /\ calls[i].op = "set_state" => ClockFreeState(calls[i].state)
        /\ calls[i].op = "send_message" => ClockFreeText(calls[i].text)

\* the inserts of the calls do carry the date stamp
InsertsAreStamped(calls) ==
    \A i \in 1..Len(calls) :
        calls[i].op = "insert_record" => IsClockValue(Get(calls[i].record, "date"))

\* what a parser may name as the container of a text
Containers == {"food", "sleep", "exercise", "unknown", "ignore", "invalid", "error"}

DomainTables == {"food", "sleep", "exercise"}

\* every insert of the calls goes to the domain table the parser named
InsertsOnlyInto(calls, container) ==
    \A i \in 1..Len(calls) :
        calls[i].op = "insert_record" =>
            container \in DomainTables /\ calls[i].table = container

\* the calls write nothing but one line of the audit log, for this container
OnlyAuditLog(calls, container) ==
    /\ ~HasCall(calls, "insert_record")
    /\ Cardinality(CallsTo(calls, "log_entry")) = 1
    /\ \A i \in CallsTo(calls, "log_entry") : calls[i].container = container

CallbackHandlerName(flow) ==
    CASE flow = "food" -> "handle_food_callback"
      [] flow = "sleep" -> "handle_sleep_callback"
      [] flow = "exercise" -> "handle_exercise_callback"

FallbackIds == {"food.not_understood", "sleep.not_understood", "exercise.not_understood"}

\* the buttons under the messages of a call sequence
ButtonsOf(calls) ==
    UNION {{calls[i].kb[j] : j \in 1..Len(calls[i].kb)} :
               i \in CallsTo(calls, "send_message")}

\* the calls answering a tap: the flow's own handler took the token in a
\* branch of its own, and a tap on Confirm led to the insert
TapUnderstood(calls, st, t) ==
    /\ HasCall(calls, CallbackHandlerName(FlowOf(st)))
    /\ \A id \in FallbackIds : ~SendsText(calls, id)
    /\ (StepOf(st) = "preview" /\ t = ConfirmButton(FlowOf(st))) => HasCall(calls, "insert_record")

\* the keys the flow's _base_state declares
InitialKeys(flow) == DOMAIN DataOf(StartReply(flow).state)

\* the value ranges a sleep record's fields are meant to stay in
IsScoreValue(v) == v = NULL \/ (v.t = "int" /\ v.v >= 0 /\ v.v <= 100)

IsDurationValue(v) == v = NULL \/ (v.t = "float" /\ v.k = "fin" /\ v.m > 0 /\ v.m <= 24000)

IsRestingHrValue(v) == v = NULL \/ (v.t = "int" /\ v.v > 0)

\* an HH:MM text: digits, one colon, digits, hour 0..23 and minute 0..59
IsClockText(v) == v = NULL \/ (v.t = "str" /\ StrpTime(v.v, ":").ok)

SleepDataInRange(data) ==
    /\ IsScoreValue(Get(data, "sleep_score")) /\ IsScoreValue(Get(data, "energy_score"))
    /\ IsDurationValue(Get(data, "duration_hr"))
    /\ IsRestingHrValue(Get(data, "resting_hr"))
    /\ IsClockText(Get(data, "sleep_start")) /\ IsClockText(Get(data, "sleep_end"))

IsSleepState(st) == Active(st) /\ FlowOf(st) = "sleep"

\* texts a user can answer a sleep prompt with
SleepAnswerTx == [half |-> <<"0", ".", "5">>, padded |-> <<"7", " ", ":", "0", "5">>]

SleepAnswers == NumberTexts \cup TimeTexts \cup {SleepAnswerTx[k] : k \in DOMAIN SleepAnswerTx}

\* the sleep state the chat holds once `text` is handled in state st, if any
SleepStateAfter(text, st) ==
    LET r == handle_sleep_text(text, st)
    IN  IF ~r.raised /\ IsSleepState(r.state) THEN r.state ELSE st

\* how many calls of the sequence go to collaborator op
CountOf(calls, op) == Cardinality(CallsTo(calls, op))

\* one answer_callback_query and at most one send_message
AcknowledgedOnce(calls) ==
    CountOf(calls, "answer_callback_query") = 1 /\ CountOf(calls, "send_message") <= 1

\* callback data of every kind: each button, and a token nothing matches
CallbackData == Tokens \cup {T_unknown}
----------------------------------------------------------------------------
(* Properties *)

\* C1: whenever a chat's stored state is at step preview of a flow, the router
\* handle_callback, given the Confirm button that flow's own preview keyboard
\* carries, makes exactly one insert_record call, to the table named after
\* the flow, and leaves the chat without a stored state, whether the insert
\* reports success or failure.
C1_ConfirmInsertsOnceAndClears ==
    \A c \in Chats, flow \in Flows, ok \in BOOLEAN :
        AtPreview(store[c], flow) =>
            LET calls == handle_callback_calls(store, c, ConfirmButton(flow), ok)
            IN  /\ Len(InsertsOf(calls)) = 1
                /\ InsertsOf(calls)[1].table = flow
                /\ PostState(c, calls) = None

\* the exercise preview's Confirm button has been handled: the handler's
\* "logging" reply was sent, no insert was made and the preview state is
\* still stored
C1_ExerciseConfirmWithoutInsert ==
    /\ out.via = "handle_callback"
    /\ out.pre.flow = "exercise" /\ out.pre.step = "preview"
    /\ SendsText(out.calls, "exercise.logging")
    /\ InsertsOf(out.calls) = <<>>
    /\ AtPreview(store[out.chat], "exercise")

\* C2: a callback update makes at most one insert, and makes it only when the
\* chat's stored state is active at step preview and the token is a confirm
\* token; the state is gone afterwards.  So a confirm token arriving after
\* the state was cleared makes no insert, and inserts never outnumber the
\* confirmed previews.  Both callback entry points are covered.
C2_NoInsertWithoutPreviewState ==
    \A c \in Chats, data \in Tokens, ok \in BOOLEAN :
        \A calls \in {handle_callback_calls(store, c, data, ok),
                      handle_callback_query_calls(store, c, data, ok)} :
            /\ Len(InsertsOf(calls)) <= 1
            /\ (~Active(store[c]) /\ data \in ConfirmTokens) => InsertsOf(calls) = <<>>
            /\ InsertsOf(calls) # <<>> =>
                   /\ Active(store[c]) /\ StepOf(store[c]) = "preview"
                   /\ data \in ConfirmTokens
                   /\ PostState(c, calls) = None

\* a confirm has just written a record through _handle_callback_query and
\* cleared the chat's state: every confirm token that follows is stale
C2_StateClearedByConfirm ==
    /\ out.via = "_handle_callback_query"
    /\ out.pre.step = "preview"
    /\ InsertsOf(out.calls) # <<>>
    /\ store[out.chat] = None

\* C3: when the insert a confirm triggers fails, handle_callback sends a
\* message carrying the storage error text, sends no success message, calls
\* clear_state so the chat has no stored state, and makes no second insert.
C3_FailedInsertReportsAndClears ==
    \A c \in Chats, data \in Tokens :
        LET calls == handle_callback_calls(store, c, data, FALSE)
        IN  InsertsOf(calls) # <<>> =>
                /\ Len(InsertsOf(calls)) = 1
                /\ \E i \in 1..Len(calls) :
                       /\ calls[i].op = "send_message"
                       /\ calls[i].text.lines = <<Line("error", PStr(StorageError))>>
                /\ \A id \in SuccessIds : ~SendsText(calls, id)
                /\ HasCall(calls, "clear_state")
                /\ PostState(c, calls) = None

\* handle_callback has just handled a confirm whose insert failed
C3_FailedInsertHandled ==
    /\ out.via = "handle_callback"
    /\ \E i \in 1..Len(out.calls) :
           out.calls[i].op = "insert_record" /\ ~out.calls[i].ok
    /\ store[out.chat] = None

\* C4: at every reachable step of every flow, the flow's callback handler
\* answers the flow's cancel token with a null next state, and handle_callback
\* then calls clear_state, leaving the chat without a stored state, and makes
\* no insert.
C4_CancelClearsAtEveryStep ==
    \A c \in Chats, flow \in Flows, ok \in BOOLEAN :
        (Active(store[c]) /\ FlowOf(store[c]) = flow) =>
            LET calls == handle_callback_calls(store, c, CancelToken(flow), ok)
            IN  /\ CallbackReply(flow, CancelToken(flow), store[c]).state = None
                /\ InsertsOf(calls) = <<>>
                /\ HasCall(calls, "clear_state")
                /\ PostState(c, calls) = None

\* a cancel has just been handled in the middle of the exercise flow
C4_CancelledMidFlow ==
    /\ out.via = "handle_callback"
    /\ out.pre.flow = "exercise" /\ out.pre.step = "ask_effort"
    /\ SendsText(out.calls, "exercise.cancelled")
    /\ HasCall(out.calls, "clear_state")
    /\ store[out.chat] = None

\* C5: a stored state at step preview has every required field of its flow
\* non-null: meal_name for food, sleep_score and duration_hr for sleep,
\* workout_name for exercise.
C5_PreviewHasRequiredFields ==
    \A c \in Chats :
        (Active(store[c]) /\ FlowOf(store[c]) \in Flows /\ StepOf(store[c]) = "preview") =>
            \A k \in RequiredFields(FlowOf(store[c])) : Get(DataOf(store[c]), k) # NULL

\* an exercise state at preview whose workout_name is still null
C5_ExercisePreviewWithoutType ==
    /\ AtPreview(store["c1"], "exercise")
    /\ Get(DataOf(store["c1"]), "workout_name") = NULL

\* C6: at every step that asks for an optional field, a skip action (a skip
\* button, or the text "skip") moves the flow on to another step without
\* clearing the state and without an exception, so a skip-only run reaches
\* preview.
C6_EveryOptionalStepCanBeSkipped ==
    \A c \in Chats :
        (/\ Active(store[c]) /\ FlowOf(store[c]) \in Flows
         /\ StepOf(store[c]) \in OptionalSteps(FlowOf(store[c]))) =>
            SkipAdvances(store[c])

\* the sleep flow waits for the energy score: no skip button is accepted and
\* the text "skip" ends the flow
C6_SleepEnergyCannotBeSkipped ==
    /\ Active(store["c1"]) /\ FlowOf(store["c1"]) = "sleep"
    /\ StepOf(store["c1"]) = "ask_energy"
    /\ \A t \in SkipTokens :
           handle_sleep_callback(t, store["c1"]).state = store["c1"]
    /\ handle_sleep_text(X_skip, store["c1"]).state = None

\* C7: from the update that stores a state until the update that clears it,
\* the flow field of a chat's stored state does not change.
C7_FlowNeverChanges ==
    [][\A c \in Chats :
           (Active(store[c]) /\ Active(store'[c])) => FlowOf(store'[c]) = FlowOf(store[c])]_vars

\* sleep_edit has been handled while a food state was at preview: the chat
\* now holds a sleep state
C7_FoodStateBecameSleepState ==
    /\ out.via = "handle_callback"
    /\ out.pre.flow = "food" /\ out.pre.step = "preview"
    /\ SendsText(out.calls, "sleep.edit")
    /\ Active(store[out.chat]) /\ FlowOf(store[out.chat]) = "sleep"

\* C8: every state the store holds has a flow in {food, sleep, exercise} and
\* a step that is one of that flow's steps; the store never holds an empty or
\* step-less state.
C8_StoredStatesAreWellFormed ==
    \A c \in Chats :
        store[c] # None =>
            /\ FlowOf(store[c]) \in Flows
            /\ StepOf(store[c]) \in StepsOf(FlowOf(store[c]))

\* a sleep_ callback has been handled for a chat without a state: the store
\* now holds the empty dict for it
C8_EmptyStateStored ==
    /\ out.via = "handle_callback"
    /\ out.pre.kind = "None"
    /\ HasCall(out.calls, "handle_sleep_callback")
    /\ store[out.chat] = EmptyDict

\* C9: while a chat has an active flow state, webhook() hands every text
\* message of the chat to that flow's text handler and to nothing else: not
\* to the command shortcuts, not to parse_text_message, and no record is
\* inserted.
C9_TextGoesToTheFlowHandler ==
    \A c \in Chats, text \in Texts \cup {X_food_cmd}, parsed \in ParseOutcomes, ok \in BOOLEAN :
        (Active(store[c]) /\ FlowOf(store[c]) \in Flows) =>
            LET calls == webhook_calls(store, c, text, parsed, ok)
            IN  /\ HasCall(calls, TextHandlerName(FlowOf(store[c])))
                /\ ~HasCall(calls, "parse_text_message")
                /\ ~HasCall(calls, "start_food_flow")
                /\ InsertsOf(calls) = <<>>

\* webhook() has parsed a text of a chat in the sleep flow as a free-text
\* entry and inserted a record; the sleep state is still stored
C9_SleepTextParsedAndInserted ==
    /\ out.via = "webhook"
    /\ out.pre.flow = "sleep"
    /\ HasCall(out.calls, "parse_text_message")
    /\ InsertsOf(out.calls) # <<>>
    /\ Active(store[out.chat]) /\ FlowOf(store[out.chat]) = "sleep"

\* C10: a flow-entry button tapped while a state of a different flow is
\* stored replaces that state with the tapped flow's initial state.
C10_EntryButtonSwitchesFlow ==
    \A c \in Chats, flow \in Flows, ok \in BOOLEAN :
        (Active(store[c]) /\ FlowOf(store[c]) \in Flows \ {flow}) =>
            PostState(c, handle_callback_calls(store, c, EntryToken(flow), ok))
                = StartReply(flow).state

\* a food state is stored and log_sleep is answered by the food handler's
\* fallback, the stored state staying as it is
C10_EntryButtonAbsorbed ==
    /\ Active(store["c1"]) /\ FlowOf(store["c1"]) = "food"
    /\ out.via = "handle_callback"
    /\ LET calls == handle_callback_calls(store, "c1", MenuCb.log_sleep, TRUE)
       IN  /\ HasCall(calls, "handle_food_callback")
           /\ SendsText(calls, "food.not_understood")
           /\ PostState("c1", calls) = store["c1"]


\* C11: starting flow B while a state of another flow A is stored has the
\* same kind of outcome for every pair (A, B) and every way of starting
\* (entry button, start button, "/food" command): either the stored state
\* always becomes B's initial state, or A's state is always kept unchanged.
C11_StartPolicyIsConsistent ==
    \/ \A c \in Chats, flow \in Flows : \A st \in InterruptedStates(c) :
           InOtherFlow(st, flow) =>
               StartOutcomes([store EXCEPT ![c] = st], c, flow) = {StartReply(flow).state}
    \/ \A c \in Chats, flow \in Flows : \A st \in InterruptedStates(c) :
           InOtherFlow(st, flow) =>
               StartOutcomes([store EXCEPT ![c] = st], c, flow) = {st}

\* "/food" has replaced a sleep state with the food flow's initial state,
\* although the log_food button would have left that sleep state as it was
C11_CommandSwitchedWhereButtonKeeps ==
    /\ out.via = "webhook"
    /\ out.pre.flow = "sleep" /\ out.pre.step = "ask_duration"
    /\ HasCall(out.calls, "start_food_flow")
    /\ store[out.chat] = start_food_flow.state
    /\ LET before == [store EXCEPT ![out.chat] =
                          SetStep(AssignData(Sleep_base_state, "sleep_score", PInt(80)),
                                  "ask_duration")]
       IN  StoreAfter(before, out.chat,
                      handle_callback_calls(before, out.chat, MenuCb.log_food, TRUE))
               = before

\* C12: a main_menu callback makes handle_callback send the static menu and
\* nothing else: no get, set or clear of the store, no insert; whatever state
\* the chat has, at whatever step, it is still stored with the same step and
\* data afterwards.
C12_MainMenuLeavesStoreUnchanged ==
    \A c \in Chats, ok \in BOOLEAN :
        LET calls == handle_callback_calls(store, c, MenuCb.main_menu, ok)
        IN  /\ \E i \in 1..Len(calls) :
                   calls[i] = CSend(Txt("main_menu"), MainMenuKb)
            /\ InsertsOf(calls) = <<>>
            /\ ~HasCall(calls, "set_state") /\ ~HasCall(calls, "clear_state")
            /\ StoreAfter(store, c, calls) = store

\* the menu has just been shown in the middle of a sleep flow and the sleep
\* state is still stored at the step it was at
C12_MenuShownMidSleepFlow ==
    /\ out.via = "handle_callback"
    /\ SendsText(out.calls, "main_menu")
    /\ out.pre.flow = "sleep" /\ out.pre.step = "ask_sleep_end"
    /\ Active(store[out.chat]) /\ FlowOf(store[out.chat]) = "sleep"
    /\ StepOf(store[out.chat]) = "ask_sleep_end"

\* C13: for a chat without an active state, each start token (the log_food,
\* log_sleep and log_exercise buttons through handle_callback, the "/food"
\* command and its aliases through webhook()) stores the started flow's
\* initial state: that flow, its first step, every field of data null.
C13_StartStoresInitialState ==
    \A c \in Chats, flow \in Flows :
        ~Active(store[c]) =>
            \A calls \in StartCalls(c, flow) :
                /\ IsInitialState(PostState(c, calls), flow)
                /\ PostState(c, calls) = StartReply(flow).state
                /\ InsertsOf(calls) = <<>>

\* log_sleep has just been handled for a chat that had no state: the sleep
\* flow's start function was called and its state is stored
C13_SleepStartedFromNothing ==
    /\ out.via = "handle_callback"
    /\ out.pre.kind = "None"
    /\ HasCall(out.calls, "start_sleep_flow")
    /\ IsInitialState(store[out.chat], "sleep")

\* C14: the store's operations round-trip.  Whatever the store holds,
\* get_state after set_state(c, s) returns s; get_state after clear_state(c)
\* returns None; clear_state on a chat without a state changes nothing, so
\* clearing twice is the same as clearing once; and neither operation
\* touches another chat's entry.
C14_StoreRoundTrips ==
    \A c \in Chats :
        /\ \A st \in {store[d] : d \in Chats} \cup {start_food_flow.state, start_sleep_flow.state,
                                                   start_exercise_flow.state, EmptyDict} :
               /\ get_state(set_state(store, c, st), c) = st
               /\ get_state(clear_state(set_state(store, c, st), c), c) = None
               /\ \A d \in Chats \ {c} :
                      get_state(set_state(store, c, st), d) = get_state(store, d)
        /\ get_state(clear_state(store, c), c) = None
        /\ store[c] = None => clear_state(store, c) = store
        /\ clear_state(clear_state(store, c), c) = clear_state(store, c)

\* clear_state has just been called for a chat that had no state (the cancel
\* button of a flow that is over) and the chat still has none
C14_ClearedWithoutState ==
    /\ out.pre.kind = "None"
    /\ HasCall(out.calls, "clear_state")
    /\ ~HasCall(out.calls, "set_state")
    /\ store[out.chat] = None

\* C15: the store maps each chat identifier to at most one state, and an
\* update for one chat, handled by the router or a text handler, leaves the
\* entry of every other chat exactly as it was.
C15_OtherChatsUntouched ==
    [][/\ DOMAIN store' = Chats
       /\ \A d \in Chats \ {out'.chat} : store'[d] = store[d]]_vars

\* chat c2 has just confirmed its sleep log, which cleared its state, while
\* chat c1 is still in the middle of its own sleep flow
C15_OneChatConfirmedOtherMidFlow ==
    /\ out.chat = "c2" /\ out.pre.step = "preview"
    /\ InsertsOf(out.calls) # <<>>
    /\ store["c2"] = None
    /\ Active(store["c1"]) /\ FlowOf(store["c1"]) = "sleep"
    /\ StepOf(store["c1"]) = "ask_sleep_end"

\* C16: when a sleep state at preview holds a sleep_start and a sleep_end the
\* flow accepted as HH:MM, the record handle_callback inserts on confirm has
\* both as timestamps; sleep_start is dated one day before sleep_end when it
\* is later in the day than sleep_end, and the same day otherwise.
C16_CrossMidnightStartIsPreviousDay ==
    \A c \in Chats, ok \in BOOLEAN :
        (/\ AtPreview(store[c], "sleep")
         /\ IsValidTime(Get(DataOf(store[c]), "sleep_start"))
         /\ IsValidTime(Get(DataOf(store[c]), "sleep_end"))) =>
            LET start == Get(DataOf(store[c]), "sleep_start")
                end == Get(DataOf(store[c]), "sleep_end")
                inserts == InsertsOf(handle_callback_calls(store, c, SleepCb.confirm, ok))
            IN  /\ Len(inserts) = 1
                /\ IsTimestamp(Get(inserts[1].record, "sleep_start"))
                /\ IsTimestamp(Get(inserts[1].record, "sleep_end"))
                /\ Get(inserts[1].record, "sleep_start").day =
                       Get(inserts[1].record, "sleep_end").day
                           - (IF LaterInDay(ClockOf(start.v), ClockOf(end.v)) THEN 1 ELSE 0)

\* a sleep log with bed time "+23:30" and wake time "07:00" has been
\* confirmed: the inserted record has sleep_end as a timestamp of today and
\* sleep_start still as the text typed
C16_StartInsertedAsText ==
    /\ out.via = "handle_callback" /\ out.pre.flow = "sleep" /\ out.pre.step = "preview"
    /\ Len(InsertsOf(out.calls)) = 1
    /\ Get(InsertsOf(out.calls)[1].record, "sleep_start") = PStr(TimeTx.signed)
    /\ Get(InsertsOf(out.calls)[1].record, "sleep_end") = PDateTime(0, 7, 0)

\* C17: whatever the store holds, webhook() answers every text update (empty
\* or not, a command, a flow answer, a free text whose parsing raises or
\* whose insert fails) with the one acknowledgement {"ok": true}, and no
\* exception leaves the endpoint.
C17_WebhookAlwaysAcknowledges ==
    \A c \in Chats, text \in Texts \cup {X_food_cmd, <<" ">>}, parsed \in ParseOutcomes,
       ok \in BOOLEAN :
        webhook_result(store, c, text, parsed, ok) = "ok_true"

\* webhook() has answered {"ok": false}: the free text was parsed, the insert
\* failed, and the failure was also sent to the chat
C17_AnsweredOkFalse ==
    /\ out.via = "webhook"
    /\ out.result = "ok_false"
    /\ \E i \in 1..Len(out.calls) :
           out.calls[i].op = "insert_record" /\ ~out.calls[i].ok
    /\ SendsText(out.calls, "entry.insert_failed")

\* C18: nothing serialises two updates of one chat: an update that has
\* arrived can always run its get_state, also while the other update is
\* between its own get_state and its write; the store always holds the dict
\* it refers to; and when the two did not overlap, the chat ends with what
\* one of the two sequential orders gives.  Overlapping runs are not bound by
\* that: they can end in a state neither order gives.
C18_UpdatesAreNotSerialised ==
    /\ \A k \in Workers : race.w[k].pc = "ready" => ENABLED WorkerGet(k)
    /\ race.sid # 0 => race.heap[race.sid] = store[RaceChat]
    /\ (BothDone /\ ~race.overlapped) => store[RaceChat] \in SequentialOutcomes

\* a cancel and a quality answer were handled at the same time and the chat
\* ends with the sleep state the cancel had cleared, at the next step: a
\* state neither sequential order leaves
C18_ClearedStateResurrected ==
    /\ BothDone /\ race.overlapped
    /\ {race.w[k].data : k \in Workers} = {SleepCb.cancel, SleepCb.q_80}
    /\ Active(store[RaceChat]) /\ StepOf(store[RaceChat]) = "ask_duration"
    /\ store[RaceChat] \notin SequentialOutcomes

\* C19: when a chat's state is at preview and the Confirm button of that
\* preview is pressed, handle_callback makes the insert before it clears the
\* state and before it sends anything, and sends exactly one message, the
\* success or the failure text according to the insert's result.
C19_InsertBeforeClearAndReply ==
    \A c \in Chats, flow \in Flows, ok \in BOOLEAN :
        AtPreview(store[c], flow) =>
            InsertThenClearAndOneReply(
                handle_callback_calls(store, c, ConfirmButton(flow), ok), ok)

\* the Confirm button of an exercise preview has been handled: the only
\* message is the handler's own reply, sent after set_state put the preview
\* state back, with no insert before it and no clear_state after it
C19_ExerciseReplyWithoutInsert ==
    /\ out.via = "handle_callback"
    /\ out.pre.flow = "exercise" /\ out.pre.step = "preview"
    /\ CallsTo(out.calls, "insert_record") = {}
    /\ CallsTo(out.calls, "clear_state") = {}
    /\ \E i \in CallsTo(out.calls, "set_state"), j \in CallsTo(out.calls, "send_message") :
           /\ i < j
           /\ out.calls[i].state.step = "preview"
           /\ out.calls[j].text.id = "exercise.logging"

\* C20: while a flow's state is stored, no callback token and no text moves
\* its step to an earlier position of the flow's step sequence, except the
\* flow's edit token pressed at preview; a skip button of an earlier prompt
\* in particular does not.
C20_StepOnlyMovesForward ==
    \A c \in Chats :
        InSession(store[c]) =>
            /\ \A data \in Tokens :
                   MovedBack(store[c], PostState(c, handle_callback_calls(store, c, data, TRUE)))
                       => (/\ StepOf(store[c]) = "preview"
                           /\ data = EditToken(FlowOf(store[c])))
            /\ \A text \in Texts :
                   ~MovedBack(store[c], PostState(c, flow_text_calls(store, c, text)))

\* the Skip button of the distance prompt has been pressed at the exercise
\* preview, and the flow is back at the calories prompt
C20_StaleSkipMovedPreviewBack ==
    /\ out.via = "handle_callback"
    /\ out.pre.flow = "exercise" /\ out.pre.step = "preview"
    /\ SendsText(out.calls, "exercise.ask_calories")
    /\ InSession(store[out.chat]) /\ FlowOf(store[out.chat]) = "exercise"
    /\ StepOf(store[out.chat]) = "ask_calories"

\* C21: at every step of every flow, a callback token the step does not
\* accept, other than cancel, makes the flow's handler return the state it
\* was given, same step and same data, and handle_callback leaves the stored
\* state as it was; so too at the exercise step ask_perceived.
C21_ForeignTokenLeavesStateUnchanged ==
    \A c \in Chats, data \in Tokens :
        (InSession(store[c]) /\ IsForeignToken(store[c], data)) =>
            /\ CallbackReply(FlowOf(store[c]), data, store[c]).state = store[c]
            /\ PostState(c, handle_callback_calls(store, c, data, TRUE)) = store[c]

\* an exercise state waits at ask_perceived, and the workout type button,
\* which that step does not offer, would move it on to ask_effort
C21_TypeButtonMovesPerceivedOn ==
    /\ out.via = "handle_callback"
    /\ AtStep(store["c1"], "exercise", "ask_perceived")
    /\ IsForeignToken(store["c1"], ExCb.type_Run)
    /\ StepOf(handle_exercise_callback(ExCb.type_Run, store["c1"]).state) = "ask_effort"
    /\ StepOf(PostState("c1", handle_callback_calls(store, "c1", ExCb.type_Run, TRUE)))
           = "ask_effort"

\* C22: at every defined step of every flow a text never makes the flow's
\* text handler return a null next state; at the steps that expect a button
\* press the handler returns the state it was given, and webhook() leaves a
\* food state stored as it was.
C22_TextKeepsFlowResumable ==
    \A c \in Chats, text \in Texts :
        InSession(store[c]) =>
            /\ TextReply(FlowOf(store[c]), Strip(text), store[c]).state # None
            /\ StepOf(store[c]) \in ButtonSteps(FlowOf(store[c])) =>
                   /\ TextReply(FlowOf(store[c]), Strip(text), store[c]).state = store[c]
                   /\ FlowOf(store[c]) = "food" =>
                          PostState(c, webhook_calls(store, c, text, "unknown", TRUE)) = store[c]

\* webhook() found a food state waiting for a meal type button, passed the
\* text to handle_food_text, got a null state back and cleared the store
C22_TextAtMealTypeButtonsClearedFlow ==
    /\ out.via = "webhook"
    /\ out.pre.flow = "food" /\ out.pre.step = "choose_meal_type"
    /\ HasCall(out.calls, "handle_food_text")
    /\ HasCall(out.calls, "clear_state")
    /\ SendsText(out.calls, "food.lost")
    /\ store[out.chat] = None

\* C23: at a step that expects a required number (food await_calories,
\* await_protein, await_carbs, await_fat; sleep and exercise ask_duration) a
\* text _parse_number rejects is answered with the same step and unchanged
\* data, and a text it parses, with decimal comma or point, is stored in the
\* step's field and moves the flow exactly one step on.
C23_RequiredNumberParsedOrReprompted ==
    \A c \in Chats, text \in NumberTexts :
        AtRequiredNumberStep(store[c]) =>
            NumberStepContract(store[c], Food_parse_number(text),
                               TextReply(FlowOf(store[c]), Strip(text), store[c]))

\* an exercise flow waits for its duration; "nan" parses as a float, and
\* the handler neither re-prompts nor stores it: int() of it raises
C23_DurationNanRaises ==
    /\ out.via = "handle_callback"
    /\ AtStep(store["c1"], "exercise", "ask_duration")
    /\ Food_parse_number(NumberTx.nan) # NULL
    /\ handle_exercise_text(NumberTx.nan, store["c1"]).raised

\* C24: the text "skip", in any letter case and with surrounding blanks, at
\* a typed step whose field is optional leaves the field null and moves to
\* the next step; at a typed step whose field is required it is answered
\* with the same step and unchanged data.
C24_SkipTextSkipsOptionalOnly ==
    \A c \in Chats, text \in SkipTexts :
        InSession(store[c]) =>
            SkipTextContract(store[c], TextReply(FlowOf(store[c]), Strip(text), store[c]))

\* the text handler found the food flow waiting for its optional note and
\* a "skip" typed there would reach the preview with the note "skip" stored
C24_SkipTypedAsFoodNote ==
    /\ out.via = "handle_callback"
    /\ AtStep(store["c1"], "food", "await_notes")
    /\ Get(DataOf(store["c1"]), "notes") = NULL
    /\ AtStep(handle_food_text(X_skip, store["c1"]).state, "food", "preview")
    /\ Get(DataOf(handle_food_text(X_skip, store["c1"]).state), "notes") = PStr(X_skip)

\* C25: a skip button token taken at its own step writes nothing into data,
\* every field keeping the value it had, and moves step to exactly the next
\* step of the flow's sequence, in the handler's reply and in the store.
C25_SkipButtonOnlyAdvances ==
    \A c \in Chats, data \in SkipButtonTokens :
        (InSession(store[c]) /\ AcceptsToken(FlowOf(store[c]), StepOf(store[c]), data)) =>
            /\ ~CallbackReply(FlowOf(store[c]), data, store[c]).raised
            /\ OnlyAdvanced(CallbackReply(FlowOf(store[c]), data, store[c]).state, store[c])
            /\ OnlyAdvanced(PostState(c, handle_callback_calls(store, c, data, TRUE)), store[c])

\* the router found an exercise flow at ask_perceived holding a duration
\* and left it at ask_effort with the perceived intensity still null
C25_PerceivedSkippedWithDurationKept ==
    /\ out.via = "handle_callback"
    /\ out.pre.flow = "exercise" /\ out.pre.step = "ask_perceived"
    /\ AtStep(store[out.chat], "exercise", "ask_effort")
    /\ Get(DataOf(store[out.chat]), "perceived_intensity") = NULL
    /\ Get(DataOf(store[out.chat]), "duration_min") # NULL
    /\ \E i \in 1..Len(out.calls) :
           /\ out.calls[i].op = "set_state"
           /\ out.calls[i].state = handle_exercise_callback(ExCb.skip_perc,
                                       SetStep(store[out.chat], "ask_perceived")).state

\* C26: whenever food_macros_no is chosen at ask_macros_choice and the
\* preview is reached, calories, protein_g, carbs_g, fat_g and fiber_g are
\* all null, also when the meal was being edited and had macros before.
C26_NoMacrosMeansNullMacros ==
    \A c \in Chats :
        AtStep(store[c], "food", "ask_macros_choice") =>
            /\ AtPreview(PreviewWithoutMacros(store[c]), "food")
            /\ \A k \in MacroFields : Get(DataOf(PreviewWithoutMacros(store[c])), k) = NULL

\* a meal under edit is back at the macros question after its description
\* was typed again, still holding the calories of its first pass, and
\* declining macros would bring it to the preview with them
C26_EditedMealKeepsCalories ==
    /\ out.via = "webhook"
    /\ out.pre.flow = "food" /\ out.pre.step = "await_description"
    /\ AtStep(store[out.chat], "food", "ask_macros_choice")
    /\ Get(DataOf(store[out.chat]), "calories") # NULL
    /\ AtPreview(PreviewWithoutMacros(store[out.chat]), "food")
    /\ Get(DataOf(PreviewWithoutMacros(store[out.chat])), "calories") # NULL

\* C27: for each flow the edit token at step preview makes the handler
\* return, and handle_callback store, a live state of the flow at the first
\* step of its sequence (choose_meal_type, ask_quality, ask_type), and no
\* insert is made.
C27_EditRestartsAtFirstStep ==
    \A c \in Chats, flow \in Flows :
        AtPreview(store[c], flow) =>
            /\ AtFirstStep(CallbackReply(flow, EditToken(flow), store[c]).state, flow)
            /\ AtFirstStep(PostState(c, handle_callback_calls(store, c, EditToken(flow), TRUE)), flow)
            /\ ~HasCall(handle_callback_calls(store, c, EditToken(flow), TRUE), "insert_record")

\* the router found a food preview, stored a food state waiting for the
\* description, the second step of the sequence, and made no insert
C27_FoodEditResumedAtDescription ==
    /\ out.via = "handle_callback"
    /\ out.pre.flow = "food" /\ out.pre.step = "preview"
    /\ HasCall(out.calls, "handle_food_callback")
    /\ SendsText(out.calls, "food.edit")
    /\ ~HasCall(out.calls, "insert_record")
    /\ AtStep(store[out.chat], "food", "await_description")
    /\ StepSequence("food")[2] = "await_description"

\* C28: each flow's preview lists every field of the flow's data, a null
\* field as the placeholder, and its keyboard is exactly the buttons Confirm,
\* Edit, Cancel of the flow, whatever fields are null.
C28_PreviewListsEveryField ==
    \A c \in Chats :
        InSession(store[c]) =>
            /\ ListsEveryField(FlowOf(store[c]), DataOf(store[c]))
            /\ IsConfirmEditCancel(PreviewKeyboard(FlowOf(store[c])), FlowOf(store[c]))

\* a food preview was sent for a meal logged without macros, and it has no
\* macros line at all
C28_FoodPreviewWithoutMacrosLine ==
    /\ out.via = "handle_callback"
    /\ AtPreview(store[out.chat], "food")
    /\ Get(DataOf(store[out.chat]), "calories") = NULL
    /\ \E i \in 1..Len(out.calls) :
           /\ out.calls[i].op = "send_message"
           /\ out.calls[i].text = Food_build_preview(DataOf(store[out.chat]))
           /\ out.calls[i].kb = FoodPreviewKb
           /\ ~HasLine(out.calls[i].text, "Macros")

\* C29: normalize_input returns None for an empty or blank text and for the
\* words skip, no, none, pass in any letter case with blanks around, and
\* makes no call at all for them: no client is built and no LLM is asked.
C29_NothingTextsReturnNoneUnasked ==
    \A text \in NothingTexts, context \in NormContexts, key \in ApiKeys, llm \in LlmOutcomes :
        NoneWithoutCalls(normalize_input(client, text, context, key, llm), client)

\* normalize_input came back with None and made no call although a client
\* was at hand
C29_ReturnedNoneWithClientUnused ==
    /\ out.via = "normalize_input"
    /\ out.result = "None"
    /\ out.calls = <<>>
    /\ client = OpenAIClient

\* C30: normalize_input never raises: with the credentials missing, the
\* LLM call failing, its content empty, malformed or not a JSON object it
\* returns None, and when the content is a JSON object it returns that
\* object.
C30_NormalizeNeverRaises ==
    \A text \in NormTexts, context \in NormContexts, key \in ApiKeys, llm \in LlmOutcomes :
        /\ ~normalize_input(client, text, context, key, llm).raised
        /\ text \notin NothingTexts =>
               FallbackContract(normalize_input(client, text, context, key, llm),
                                client, key, llm)

\* the LLM was asked, its answer did not parse, the error was logged and
\* None came back
C30_MalformedAnswerBecameNone ==
    /\ out.via = "normalize_input"
    /\ out.result = "None"
    /\ Len(out.calls) >= 3
    /\ out.calls[Len(out.calls) - 2].op = "chat.completions.create"
    /\ out.calls[Len(out.calls) - 1].op = "json.loads"
    /\ out.calls[Len(out.calls)].op = "logging.error"

\* C31: at a step that expects a typed number the text handler asks the
\* normalisation adapter first, and a value the adapter returns is the value
\* stored: the text "7 h", which the adapter turns into 7, fills the step's
\* field and moves the flow one step on.
C31_AdapterValueIsStored ==
    \A c \in Chats :
        (AtRequiredNumberStep(store[c]) /\ AdapterAnswer.ret # NULL) =>
            StoredAndAdvanced(TextReply(FlowOf(store[c]), Strip(NormTx.hours), store[c]),
                              store[c], RequiredNumberField(FlowOf(store[c]))[StepOf(store[c])],
                              AdapterNumber)

\* a sleep flow waits for its duration; the adapter would answer 7 for
\* "7 h", and handle_sleep_text, which parses the text itself, re-prompts
C31_SleepDurationParsedWithoutAdapter ==
    /\ out.via = "handle_callback"
    /\ AtStep(store["c1"], "sleep", "ask_duration")
    /\ AdapterAnswer.ret = ObjectOf(JsonTx.object)
    /\ AdapterNumber = PFloat("fin", 7000)
    /\ Sleep_parse_number(NormTx.hours) = NULL
    /\ IsReprompt(handle_sleep_text(NormTx.hours, store["c1"]), store["c1"])

C34_InsertGoesToTableOfStoredFlow ==
    \A c \in Chats, data \in Tokens, ok \in BOOLEAN :
        \A i \in 1..Len(handle_callback_calls(store, c, data, ok)) :
            handle_callback_calls(store, c, data, ok)[i].op = "insert_record" =>
                /\ Active(store[c])
                /\ handle_callback_calls(store, c, data, ok)[i].table = FlowOf(store[c])

\* the router found a food preview and inserted its record, meal name and
\* all, into the sleep table
C34_FoodRecordInsertedIntoSleep ==
    /\ out.via = "handle_callback"
    /\ out.pre.flow = "food" /\ out.pre.step = "preview"
    /\ HasCall(out.calls, "handle_sleep_callback")
    /\ \E i \in 1..Len(out.calls) :
           /\ out.calls[i].op = "insert_record"
           /\ out.calls[i].table = "sleep"
           /\ "meal_name" \in DOMAIN out.calls[i].record
    /\ store[out.chat] = None

\* C35: an update handled by handle_callback or _handle_callback_query
\* made an insert only if the state it read at its start was at step
\* preview, and a confirm token that finds the chat at any other step, or
\* without a state, causes no insert.
C35_InsertOnlyFromPreview ==
    /\ (out.via \in {"handle_callback", "_handle_callback_query"}
            /\ HasCall(out.calls, "insert_record")) =>
           out.pre.kind = "dict" /\ out.pre.step = "preview"
    /\ \A c \in Chats, data \in ConfirmTokens, ok \in BOOLEAN :
           ~(Active(store[c]) /\ StepOf(store[c]) = "preview") =>
               /\ ~HasCall(handle_callback_calls(store, c, data, ok), "insert_record")
               /\ ~HasCall(handle_callback_query_calls(store, c, data, ok), "insert_record")

\* handle_callback read a food state at preview and made the insert
C35_FoodPreviewInserted ==
    /\ out.via = "handle_callback"
    /\ out.pre.kind = "dict" /\ out.pre.flow = "food" /\ out.pre.step = "preview"
    /\ \E i \in 1..Len(out.calls) :
           out.calls[i].op = "insert_record" /\ out.calls[i].table = "food"

\* C36: every button sent together with a state that was stored, when
\* tapped while that state is stored, is routed by handle_callback to the
\* handler of the state's flow and taken by a branch other than the
\* fallback, and the Confirm button of a preview leads to the insert.
C36_EveryButtonSentIsUnderstood ==
    (HasCall(out.calls, "set_state") /\ InSession(store[out.chat])) =>
        \A t \in ButtonsOf(out.calls) :
            TapUnderstood(handle_callback_calls(store, out.chat, t, TRUE), store[out.chat], t)

\* the exercise preview was just sent and stored; a tap on its Confirm
\* button is answered by the exercise handler, and no insert is made
C36_ExerciseConfirmButtonNotTested ==
    /\ HasCall(out.calls, "set_state")
    /\ AtPreview(store[out.chat], "exercise")
    /\ ExCb.confirm \in ButtonsOf(out.calls)
    /\ HasCall(handle_callback_calls(store, out.chat, ExCb.confirm, TRUE),
               "handle_exercise_callback")
    /\ ~HasCall(handle_callback_calls(store, out.chat, ExCb.confirm, TRUE), "insert_record")
    /\ T_exercise_confirm # ExCb.confirm

\* C37: the keys of a stored state's data are those of the flow's initial
\* state for the whole session, and every record inserted by handle_callback
\* has exactly those keys plus chat_id and date.
C37_DataKeysAreInitialKeys ==
    \A c \in Chats :
        InSession(store[c]) =>
            /\ DOMAIN DataOf(store[c]) = InitialKeys(FlowOf(store[c]))
            /\ \A data \in Tokens :
                   \A i \in CallsTo(handle_callback_calls(store, c, data, TRUE), "insert_record") :
                       DOMAIN handle_callback_calls(store, c, data, TRUE)[i].record
                           = InitialKeys(FlowOf(store[c])) \cup {"chat_id", "date"}

\* a meal was confirmed and the record inserted into the food table has
\* the key meal_type, which the initial state does not declare
C37_MealTypeKeyInserted ==
    /\ out.via = "handle_callback"
    /\ out.pre.flow = "food" /\ out.pre.step = "preview"
    /\ "meal_type" \notin InitialKeys("food")
    /\ \E i \in 1..Len(out.calls) :
           /\ out.calls[i].op = "insert_record"
           /\ out.calls[i].table = "food"
           /\ "meal_type" \in DOMAIN out.calls[i].record

C39_CallbackAcknowledgedOnce ==
    /\ \A c \in Chats, data \in CallbackData, ok \in BOOLEAN :
           AcknowledgedOnce(handle_callback_calls(store, c, data, ok))
    /\ (out.via = "handle_callback" /\ out.calls # <<>>) => AcknowledgedOnce(out.calls)

\* a confirm whose insert failed was handled: one insert reporting failure,
\* one message and one acknowledgement
C39_FailedInsertAcknowledged ==
    /\ out.via = "handle_callback"
    /\ \E i \in 1..Len(out.calls) : out.calls[i].op = "insert_record" /\ ~out.calls[i].ok
    /\ CountOf(out.calls, "answer_callback_query") = 1
    /\ CountOf(out.calls, "send_message") = 1

====
